---- MODULE Spec2Model ----
(***************************************************************************)
(* Agentify: the workflow step-graph interpreter (core/workflow.ts) and    *)
(* the orchestrator's decompose / dispatch / evaluate loop                 *)
(* (core/orchestrator.ts), modelled as state machines.                     *)
(*                                                                         *)
(* A workflow run is a table of activations of the async function          *)
(* executeStep ("frames").  Every `await` of the source is a point where   *)
(* an activation is suspended; one action of the model is the code that    *)
(* runs between two such points.                                           *)
(***************************************************************************)
EXTENDS Integers, Sequences, FiniteSets, TLC

(***************************************************************************)
(* JavaScript values.  Every value is a record with a tag t; the payload   *)
(* field has a different name for every tag, so that two values of         *)
(* different kinds are always comparable.  Objects and arrays live in a    *)
(* heap and are held by reference, so that two holders of the same object  *)
(* see each other's writes; Obj and Arr are the object and array literals  *)
(* (and the deep copies of heap values that properties compare).           *)
(***************************************************************************)
Undefined == [t |-> "undef"]

Null == [t |-> "null"]

Num(n) == [t |-> "num", n |-> n]

Str(s) == [t |-> "str", s |-> s]

Obj(f) == [t |-> "obj", o |-> f]

Arr(s) == [t |-> "arr", a |-> s]

\* an Error object: message and the number of the invocation that raised it
Err(m, i) == [t |-> "err", e |-> m, i |-> i]

\* a reference to the heap object at address a
Ref(a) == [t |-> "ref", r |-> a]

EmptyMap == [k \in {} |-> Undefined]

EmptyObj == Obj(EmptyMap)

\* JS truthiness of a value (used by `!target[key]`, `if (!shouldRun)`, ...)
Truthy(v) ==
  CASE v.t = "undef" -> FALSE
    [] v.t = "null" -> FALSE
    [] v.t = "num" -> v.n # 0
    [] v.t = "str" -> v.s # ""
    [] OTHER -> TRUE

\* f with key k set to v (obj[k] = v)
Put(f, k, v) == (k :> v) @@ f

\* Object.assign(target, src) on the key maps: keys of src win
Merge(f, g) == g @@ f

\* the property names of the first array indices
IdxKey == <<"0", "1", "2", "3", "4", "5", "6", "7", "8", "9">>

(***************************************************************************)
(* The heap: address -> object.  An address is <<kind, n, path>>: the      *)
(* place of the source that creates the object (kind), the activation or   *)
(* context it is created for (n) and, for an object nested in a literal,   *)
(* its dotted path in the literal.  An object is a key map; an array is a  *)
(* sequence of elements plus the named properties set on it.               *)
(***************************************************************************)
ObjCell(f) == [k |-> "obj", o |-> f]

ArrCell(s) == [k |-> "arr", a |-> s, o |-> EmptyMap]

JoinPath(p, key) == IF p = "" THEN key ELSE p \o "." \o key

\* the objects and arrays of a literal, each with its dotted path
RECURSIVE SubValues(_, _)
SubValues(p, v) ==
  CASE v.t = "obj" ->
         {<<p, v>>} \cup
         UNION {SubValues(JoinPath(p, k), v.o[k]) : k \in DOMAIN v.o}
    [] v.t = "arr" ->
         {<<p, v>>} \cup
         UNION {SubValues(JoinPath(p, IdxKey[i]), v.a[i]) : i \in 1..Len(v.a)}
    [] OTHER -> {}

\* the value that evaluating literal v gives: the reference to the new
\* object, or the primitive (or the reference) v itself
ValueIn(kind, n, p, v) ==
  IF v.t \in {"obj", "arr"} THEN Ref(<<kind, n, p>>) ELSE v

CellOf(kind, n, p, v) ==
  IF v.t = "obj"
  THEN ObjCell([k \in DOMAIN v.o |-> ValueIn(kind, n, JoinPath(p, k), v.o[k])])
  ELSE ArrCell([i \in 1..Len(v.a) |->
                  ValueIn(kind, n, JoinPath(p, IdxKey[i]), v.a[i])])

\* the heap after literal v has been evaluated: its objects are new
Inst(h, kind, n, v) ==
  LET subs == SubValues("", v)
      new == {<<kind, n, q[1]>> : q \in subs}
  IN [a \in DOMAIN h \cup new |->
        IF a \in new
        THEN CellOf(kind, n, a[3], (CHOOSE q \in subs : q[1] = a[3])[2])
        ELSE h[a]]

\* the heap with a new (or replaced) object at address a
New(h, a, cell) == (a :> cell) @@ h

\* the deep copy of a value: what it looks like now to a reader
RECURSIVE Deep(_, _)
Deep(h, v) ==
  IF v.t = "ref"
  THEN LET c == h[v.r]
       IN IF c.k = "obj"
          THEN Obj([k \in DOMAIN c.o |-> Deep(h, c.o[k])])
          ELSE IF c.o = EmptyMap
               THEN Arr([i \in 1..Len(c.a) |-> Deep(h, c.a[i])])
               ELSE [t |-> "arr", a |-> [i \in 1..Len(c.a) |-> Deep(h, c.a[i])],
                     o |-> [k \in DOMAIN c.o |-> Deep(h, c.o[k])]]
  ELSE IF v.t = "obj" THEN Obj([k \in DOMAIN v.o |-> Deep(h, v.o[k])])
  ELSE IF v.t = "arr" THEN Arr([i \in 1..Len(v.a) |-> Deep(h, v.a[i])])
  ELSE v

\* the key map of a sequence of elements
IndexMap(s) ==
  [k \in {IdxKey[i] : i \in 1..Len(s)} |->
     s[CHOOSE i \in 1..Len(s) : IdxKey[i] = k]]

\* the own enumerable properties of a value, as a key map (what Object.assign
\* and the spread operator copy from it)
OwnProps(h, v) ==
  CASE v.t = "ref" ->
         IF h[v.r].k = "obj" THEN h[v.r].o
         ELSE Merge(IndexMap(h[v.r].a), h[v.r].o)
    [] v.t = "obj" -> v.o
    [] OTHER -> EmptyMap

\* value?.[key]
GetKey(h, v, k) ==
  CASE v.t \in {"ref", "obj"} ->
         IF v.t = "ref" /\ h[v.r].k = "arr" /\ k = "length"
         THEN Num(Len(h[v.r].a))
         ELSE IF k \in DOMAIN OwnProps(h, v) THEN OwnProps(h, v)[k]
         ELSE Undefined
    [] OTHER -> Undefined

\* let value = context; for (const key of path) value = value?.[key]
RECURSIVE GetPath(_, _, _)
GetPath(h, v, path) ==
  IF path = <<>> THEN v ELSE GetPath(h, GetKey(h, v, Head(path)), Tail(path))

\* Array.isArray(value)
IsArray(h, v) == v.t = "ref" /\ h[v.r].k = "arr"

(***************************************************************************)
(* Dotted strings.  A string that the code splits on "." is kept as the    *)
(* sequence of its segments; Dotted gives back the string itself.          *)
(***************************************************************************)
RECURSIVE Dotted(_)
Dotted(segs) ==
  IF Len(segs) = 1 THEN segs[1] ELSE segs[1] \o "." \o Dotted(Tail(segs))

\* sourceKey.startsWith("steps.")
StartsWithSteps(segs) == Len(segs) >= 2 /\ segs[1] = "steps"

(***************************************************************************)
(* Writes.  The result is [ok |-> TRUE, h |-> the heap after the write]    *)
(* or ok |-> FALSE when the write raises a TypeError (a property is set    *)
(* on null, undefined or a primitive; the module is strict code).          *)
(***************************************************************************)
Thrown(h) == [ok |-> FALSE, h |-> h]

Done(h) == [ok |-> TRUE, h |-> h]

\* (a variant: the object is replaced by one that has the key only)
AssignAlone(h, target, key, value) ==
  IF target.t # "ref" THEN Thrown(h)
  ELSE Done([h EXCEPT ![target.r].o = (key :> value)])

\* target[key] = value
Assign(h, target, key, value) ==
  IF target.t # "ref" THEN Thrown(h)
  ELSE LET c == h[target.r]
           at == {i \in 1..(IF c.k = "arr" THEN Len(c.a) ELSE 0) : IdxKey[i] = key}
       IN IF at # {}
          THEN Done([h EXCEPT ![target.r].a[CHOOSE i \in at : TRUE] = value])
          ELSE Done([h EXCEPT ![target.r].o = Put(@, key, value)])

\* (a variant: every intermediate is replaced by a new empty object)
RECURSIVE SetPathAnew(_, _, _, _, _, _)
SetPathAnew(h, f, target, path, walked, value) ==
  IF Len(path) = 1 THEN Assign(h, target, path[1], value)
  ELSE LET key == path[1]
           here == Append(walked, key)
           made == Ref(<<"mk", f, Dotted(here)>>)
           r == Assign(New(h, made.r, ObjCell(EmptyMap)), target, key, made)
       IN IF r.ok THEN SetPathAnew(r.h, f, made, Tail(path), here, value)
          ELSE Thrown(h)

\* the output mapping to a dotted target path, by activation f: the walk
\* down from target along path, where every missing or falsy intermediate
\* is replaced by a new empty object, and the assignment at the leaf
RECURSIVE SetPath(_, _, _, _, _, _)
SetPath(h, f, target, path, walked, value) ==
  IF Len(path) = 1 THEN Assign(h, target, path[1], value)
  ELSE LET key == path[1]
           here == Append(walked, key)
           cur == GetKey(h, target, key)
           made == Ref(<<"mk", f, Dotted(here)>>)
           r == Assign(New(h, made.r, ObjCell(EmptyMap)), target, key, made)
       IN IF target.t \in {"undef", "null"} THEN Thrown(h)
          ELSE IF Truthy(cur)
               THEN SetPath(h, f, cur, Tail(path), here, value)
               ELSE IF r.ok
                    THEN SetPath(r.h, f, made, Tail(path), here, value)
                    ELSE Thrown(h)

(***************************************************************************)
(* Workflow definitions: the step records built by the fluent builder.     *)
(***************************************************************************)
NoNext == [k |-> "none"]

NextOne(id) == [k |-> "one", id |-> id]

NextList(ids) == [k |-> "list", ids |-> ids]

\* predicates over the context (user functions)
NoCond == [k |-> "none"]

CondConst(b) == [k |-> "const", b |-> b]

CondTruthy(path) == [k |-> "truthy", p |-> path]

CondThrows == [k |-> "throws"]

\* input-mapping sources: a string (kept as its dotted segments) or a
\* function of the context
SrcStr(segs) == [k |-> "str", p |-> segs]

SrcFn(path) == [k |-> "fn", p |-> path]

NoMap == [has |-> FALSE, m |-> <<>>]

MapOf(entries) == [has |-> TRUE, m |-> entries]

TaskStep(taskName, inputMap, outputMap, cond, retries, retryDelay, next) ==
  [type |-> "task", next |-> next, taskName |-> taskName,
   inputMap |-> inputMap, outputMap |-> outputMap, condition |-> cond,
   retries |-> retries, retryDelay |-> retryDelay]

ParallelStep(branches, waitForAll, next) ==
  [type |-> "parallel", next |-> next, branches |-> branches,
   waitForAll |-> waitForAll, retries |-> 0]

ConditionStep(cond, trueNext, falseNext, next) ==
  [type |-> "condition", next |-> next, condition |-> cond,
   trueNext |-> trueNext, falseNext |-> falseNext, retries |-> 0]

\* an optional field of a record of the source: absent, or present with x
Absent == [has |-> FALSE]

Some(x) == [has |-> TRUE, x |-> x]

\* `concurrency = 5` of the destructuring in executeMapStep
DefaultConcurrency == 5

\* items: [k |-> "str", p |-> segments] or [k |-> "lit", v |-> value];
\* concurrency is optional
MapStep(items, iteratorTask, concurrency, next) ==
  [type |-> "map", next |-> next, items |-> items,
   iteratorTask |-> iteratorTask, concurrency |-> concurrency, retries |-> 0]

\* `delay = 1000, backoffFactor = 1` of the destructuring in executeRetryStep
DefaultDelay == 1000

DefaultBackoffFactor == 1

\* delay and backoffFactor are optional
RetryStep(stepId, maxRetries, delay, backoffFactor, cond, next) ==
  [type |-> "retry", next |-> next, stepId |-> stepId,
   maxRetries |-> maxRetries, delay |-> delay,
   backoffFactor |-> backoffFactor, condition |-> cond, retries |-> 0]

(***************************************************************************)
(* Units of work (instance.tasks[name].execute).  A behaviour gives the    *)
(* set of outcomes an invocation with a given input can have.              *)
(***************************************************************************)
Returns(v) == [k |-> "const", v |-> v]

Fails == [k |-> "fail"]

Flaky(v) == [k |-> "flaky", v |-> v]

\* returns {key: input at path}
Wraps(key, path) == [k |-> "wrap", key |-> key, p |-> path]

Ok(v) == [ok |-> TRUE, v |-> v]

Ko(v) == [ok |-> FALSE, v |-> v]

\* the outcomes of an invocation: the object literal that is returned
\* (evaluated anew by every invocation), or the error
TaskOutcomes(beh, name, h, input, n) ==
  CASE beh.k = "const" -> {Ok(beh.v)}
    [] beh.k = "fail" -> {Ko(Err(name, n))}
    [] beh.k = "flaky" -> {Ok(beh.v), Ko(Err(name, n))}
    [] beh.k = "wrap" -> {Ok(Obj(beh.key :> GetPath(h, input, beh.p)))}

(***************************************************************************)
(* State of a workflow run.                                                *)
(***************************************************************************)
VARIABLES
  scn,      \* name of the workflow under execution
  def,      \* definition.steps: step id -> step record
  entry,    \* definition.entrypoint
  declared, \* the ids of definition.steps in the order they were declared
  built,    \* the calls of the builder so far: their number, and the last
            \* call with its outcome (returned or raised)
  tasks,    \* instance.tasks: task name -> behaviour of its execute
  hooks,    \* instance.hooks: event name -> the hooks added, in order
  heap,     \* the objects and arrays created so far
  ctxs,     \* the WorkflowContext objects; 1 is the run's context, the
            \* others are the per-item contexts of Map steps
  frames,   \* the activations of executeStep, in creation order
  calls,    \* the invocations of task.execute so far, in order
  run,      \* the activation of WorkflowInstance.execute
  tdef,     \* the TaskDefinition given to the orchestrator
  options,  \* this.options of the orchestrator
  agents,   \* app.agents: the agents in registration order
  contexts, \* this.contexts: taskId -> ExecutionContext
  invs,     \* the activations of executeTask, in creation order
  dispatches, \* the calls of agent.execute so far, in order, with how each
            \* has settled
  now       \* Date.now()

\* the state of the orchestrator
orch == <<tdef, options, agents, contexts, invs, dispatches, now>>

\* the workflow and the task registry, fixed during a run, and the
\* orchestrator, which a workflow run does not touch
wfdef == <<scn, def, entry, declared, built, tasks, hooks, orch>>

wfvars == <<scn, def, entry, declared, built, tasks, hooks, heap, ctxs, frames, calls, run>>

\* bound on the number of activations of executeStep in one run
MaxFrames == 12

Pending == [st |-> "pending", v |-> Undefined]

Settled(st, v) == [st |-> st, v |-> v]

\* const context: WorkflowContext = {input, steps: {}, output: {}, errors: {}, ...}
\* (steps and errors are kept as their key maps, output as the reference to
\* the object it holds at the moment)
NewContext(input) ==
  [input |-> input, steps |-> EmptyMap, output |-> Ref(<<"out", 1, "">>),
   errors |-> EmptyMap, currentStep |-> "", parent |-> 0]

\* the context object as the value that predicates and dotted lookups read
CtxVal(c) ==
  Obj([k \in {"input", "steps", "output", "errors", "currentStep"} |->
        CASE k = "input" -> c.input
          [] k = "steps" -> Obj(c.steps)
          [] k = "output" -> c.output
          [] k = "errors" -> Obj(c.errors)
          [] k = "currentStep" -> Str(c.currentStep)])

\* a user predicate called on the context: its boolean, or the error it throws
EvalCond(cond, h, c, n) ==
  CASE cond.k = "const" -> Ok(cond.b)
    [] cond.k = "truthy" -> Ok(Truthy(GetPath(h, CtxVal(c), cond.p)))
    [] cond.k = "throws" -> Ko(Err("predicate", n))

\* the events of executeStep and the place of the activation that awaits
\* executeHook on each of them
StepEvents == {"onWorkflowStepStart", "onWorkflowStepEnd", "onWorkflowStepError"}

HookPcs == {"hookStart", "hookEnd", "hookError"}

EventOf(pc) ==
  CASE pc = "hookStart" -> "onWorkflowStepStart"
    [] pc = "hookEnd" -> "onWorkflowStepEnd"
    [] pc = "hookError" -> "onWorkflowStepError"

\* no hook has been added
NoHooks == [e \in StepEvents |-> <<>>]

\* executeHook(name, ...) is called: `for (const hook of hooks[name])` calls
\* the first hook at once, when there is one, and awaits it; hk counts the
\* hooks of the event that have completed, hrun tells that one is awaited
Hooking(fr, pc) ==
  [fr EXCEPT !.pc = pc, !.hk = 0, !.hrun = hooks[EventOf(pc)] # <<>>]

\* the first synchronous part of executeStep(stepId, workflow, context): the
\* step lookup; the activation then waits for the start hook, or is already
\* rejected with a NotFound error
NewFrame(stepId, par, cx, bud, via) ==
  [step |-> stepId, par |-> par, cx |-> cx, bud |-> bud, via |-> via,
   pc |-> IF stepId \in DOMAIN def THEN "hookStart" ELSE "notfound",
   st |-> "run", v |-> Undefined,
   kids |-> <<>>, jmode |-> "one", join |-> Settled("none", Undefined),
   res |-> Undefined, err |-> Undefined, b |-> FALSE,
   tin |-> Undefined, k |-> 1, att |-> 0, wait |-> 0,
   items |-> <<>>, bi |-> 0, acc |-> <<>>, hk |-> 0,
   hrun |-> stepId \in DOMAIN def /\ hooks["onWorkflowStepStart"] # <<>>]

\* the activations created by calling executeStep on ids[i] with context
\* cxs[i], in this order
NewFrames(ids, par, cxs, bud, via) ==
  [i \in 1..Len(ids) |-> NewFrame(ids[i], par, cxs[i], bud, via)]

\* context.currentStep = stepId, done synchronously by each of the calls
RECURSIVE SetCurrent(_, _, _)
SetCurrent(cs, ids, cxs) ==
  IF ids = <<>> THEN cs
  ELSE SetCurrent(IF Head(ids) \in DOMAIN def
                  THEN [cs EXCEPT ![Head(cxs)].currentStep = Head(ids)]
                  ELSE cs,
                  Tail(ids), Tail(cxs))

\* the promise a caller awaits on the activations ks when it is created:
\* Promise.all (mode "all") of no promise is fulfilled with [], every other
\* one is pending (Promise.race of no promise stays so)
JoinOf(mode, ks) ==
  IF mode = "all" /\ ks = <<>> THEN Settled("ok", Arr(<<>>)) ELSE Pending

\* caller p calls executeStep on ids and awaits the result in the given mode
Spawn(fs, p, ids, cxs, bud, via, mode, pc) ==
  LET ks == [i \in 1..Len(ids) |-> Len(fs) + i]
      fs1 == fs \o NewFrames(ids, p, cxs, bud, via)
  IN [fs1 EXCEPT ![p].kids = ks, ![p].jmode = mode,
                 ![p].join = JoinOf(mode, ks), ![p].pc = pc]

\* (a variant: Promise.all behaves as Promise.allSettled, it is fulfilled once
\* every promise has settled)
SettleAllSettled(fs, f, st, v) ==
  LET p == fs[f].par
      fs1 == [fs EXCEPT ![f].st = st, ![f].v = v, ![f].pc = "done"]
      ks == fs[p].kids
      awaited == \E i \in 1..Len(ks) : ks[i] = f
      allDone == \A i \in 1..Len(ks) : fs1[ks[i]].st # "run"
      j == IF fs[p].jmode = "all"
           THEN IF allDone
                THEN Settled("ok", Arr([i \in 1..Len(ks) |-> fs1[ks[i]].v]))
                ELSE Pending
           ELSE Settled(st, v)
  IN IF p = 0 THEN fs1
     ELSE IF awaited /\ fs[p].join.st = "pending"
          THEN [fs1 EXCEPT ![p].join = j]
          ELSE fs1

\* (a variant: Promise.race behaves as Promise.any, it waits for the first
\* fulfilled promise and is rejected when all are rejected)
SettleAny(fs, f, st, v) ==
  LET p == fs[f].par
      fs1 == [fs EXCEPT ![f].st = st, ![f].v = v, ![f].pc = "done"]
      ks == fs[p].kids
      awaited == \E i \in 1..Len(ks) : ks[i] = f
      allOk == \A i \in 1..Len(ks) : fs1[ks[i]].st = "ok"
      allErr == \A i \in 1..Len(ks) : fs1[ks[i]].st = "err"
      j == CASE fs[p].jmode = "race" ->
                  IF st = "ok" \/ allErr THEN Settled(st, v) ELSE Pending
             [] fs[p].jmode = "one" -> Settled(st, v)
             [] fs[p].jmode = "all" ->
                  IF st = "err" THEN Settled("err", v)
                  ELSE IF allOk
                       THEN Settled("ok", Arr([i \in 1..Len(ks) |-> fs1[ks[i]].v]))
                       ELSE Pending
  IN IF p = 0 THEN fs1
     ELSE IF awaited /\ fs[p].join.st = "pending"
          THEN [fs1 EXCEPT ![p].join = j]
          ELSE fs1

\* the settlement of activation f: its promise is fulfilled (st = "ok") or
\* rejected ("err") with v, and the promise its caller awaits reacts; the
\* value of a fulfilled Promise.all is the list of the values, which becomes
\* an array of the heap when the caller takes it
Settle(fs, f, st, v) ==
  LET p == fs[f].par
      fs1 == [fs EXCEPT ![f].st = st, ![f].v = v, ![f].pc = "done"]
      ks == fs[p].kids
      awaited == \E i \in 1..Len(ks) : ks[i] = f
      allOk == \A i \in 1..Len(ks) : fs1[ks[i]].st = "ok"
      j == CASE fs[p].jmode = "race" -> Settled(st, v)
             [] fs[p].jmode = "one" -> Settled(st, v)
             [] fs[p].jmode = "all" ->
                  IF st = "err" THEN Settled("err", v)
                  ELSE IF allOk
                       THEN Settled("ok", Arr([i \in 1..Len(ks) |-> fs1[ks[i]].v]))
                       ELSE Pending
  IN IF p = 0 THEN fs1
     ELSE IF awaited /\ fs[p].join.st = "pending"
          THEN [fs1 EXCEPT ![p].join = j]
          ELSE fs1

\* the value an activation takes from the promise it awaited: the array of
\* a Promise.all is a new object, at address a
Taken(a, v) == IF v.t = "arr" THEN Ref(a) ELSE v

TakenHeap(h, a, v) == IF v.t = "arr" THEN New(h, a, ArrCell(v.a)) ELSE h

\* an exception raised inside the try block of executeStep
Throw(fs, f, e) == [fs EXCEPT ![f].pc = "catch", ![f].err = e]

At(f, pc) == f \in DOMAIN frames /\ frames[f].st = "run" /\ frames[f].pc = pc

StepOf(f) == def[frames[f].step]

Joined(f) == frames[f].join.st \in {"ok", "err"}

\* the declared retry budget of every step (retries: undefined counts as 0)
Budgets == [s \in DOMAIN def |-> def[s].retries]

(***************************************************************************)
(* WorkflowInstance.execute                                                *)
(***************************************************************************)
\* execute(input): the context is created and the onWorkflowStart hooks run
ExecuteStart ==
  /\ run.pc = "idle"
  /\ heap' = New(Inst(heap, "in", 0, run.input), <<"out", 1, "">>,
                 ObjCell(EmptyMap))
  /\ ctxs' = <<NewContext(ValueIn("in", 0, "", run.input))>>
  /\ run' = [run EXCEPT !.pc = "hookStart"]
  /\ UNCHANGED <<wfdef, frames, calls>>

\* executeWorkflow: executeStep(definition.entrypoint, definition, context)
ExecuteWorkflow ==
  /\ run.pc = "hookStart"
  /\ frames' = NewFrames(<<entry>>, 0, <<1>>, Budgets, "call")
  /\ ctxs' = SetCurrent(ctxs, <<entry>>, <<1>>)
  /\ run' = [run EXCEPT !.pc = "awaiting"]
  /\ UNCHANGED <<wfdef, heap, calls>>

\* (a variant: the value of the traversal is not assigned to context.output)
ExecuteSettledKeeps ==
  /\ run.pc = "awaiting"
  /\ frames[1].st \in {"ok", "err"}
  /\ IF frames[1].st = "ok"
     THEN /\ ctxs' = ctxs
          /\ run' = [run EXCEPT !.pc = "hookEnd"]
     ELSE /\ ctxs' = [ctxs EXCEPT ![1].errors = Put(@, "workflow", frames[1].v)]
          /\ run' = [run EXCEPT !.pc = "hookError"]
  /\ UNCHANGED <<wfdef, heap, frames, calls>>

\* the traversal has settled: context.output = its value and the
\* onWorkflowEnd hooks run, or context.errors["workflow"] = error and the
\* onWorkflowError hooks run
ExecuteSettled ==
  /\ run.pc = "awaiting"
  /\ frames[1].st \in {"ok", "err"}
  /\ IF frames[1].st = "ok"
     THEN /\ ctxs' = [ctxs EXCEPT ![1].output = frames[1].v]
          /\ run' = [run EXCEPT !.pc = "hookEnd"]
     ELSE /\ ctxs' = [ctxs EXCEPT ![1].errors = Put(@, "workflow", frames[1].v)]
          /\ run' = [run EXCEPT !.pc = "hookError"]
  /\ UNCHANGED <<wfdef, heap, frames, calls>>

\* the handlers registered with onCompleted(handler) and onError(handler),
\* each by what a call of it does ("ok": it returns, "throw": it throws)
NoHandlers == [onCompleted |-> <<>>, onError |-> <<>>]

\* the number of handlers of the list hs that a loop over it calls: all of
\* them, or those up to the first one that throws
CalledOf(hs) ==
  IF \E k \in DOMAIN hs : hs[k] = "throw"
  THEN CHOOSE k \in DOMAIN hs : hs[k] = "throw" /\ \A j \in 1..(k - 1) : hs[j] = "ok"
  ELSE Len(hs)

\* the loop over the handlers hs is left by the exception of one of them
HandlerThrows(hs) == \E k \in DOMAIN hs : hs[k] = "throw"

\* the completion handlers are called in turn and context.output is
\* returned; the exception of a handler is thrown inside the try block: it
\* is caught as the error of the run, context.errors["workflow"] = error and
\* the onWorkflowError hooks run
ExecuteReturn ==
  /\ run.pc = "hookEnd"
  /\ LET hs == run.on.onCompleted
     IN IF HandlerThrows(hs)
        THEN /\ ctxs' = [ctxs EXCEPT ![1].errors =
                           Put(@, "workflow", Err("onCompleted", CalledOf(hs)))]
             /\ run' = [run EXCEPT !.pc = "hookError", !.ranCompleted = CalledOf(hs)]
        ELSE /\ ctxs' = ctxs
             /\ run' = [run EXCEPT !.pc = "returned", !.ret = ctxs[1].output,
                                   !.completed = @ + 1, !.ranCompleted = Len(hs)]
  /\ UNCHANGED <<wfdef, heap, frames, calls>>

\* the error handlers are called in turn with the error that was caught (the
\* one of the traversal, or the one of a completion handler) and the error
\* is raised again; the exception of an error handler is raised instead
ExecuteRaise ==
  /\ run.pc = "hookError"
  /\ LET hs == run.on.onError
         error == IF frames[1].st = "err" THEN frames[1].v
                  ELSE ctxs[1].errors["workflow"]
     IN run' = [run EXCEPT !.pc = "raised",
                           !.ret = IF HandlerThrows(hs) THEN Err("onError", CalledOf(hs))
                                   ELSE error,
                           !.errored = @ + 1, !.ranError = CalledOf(hs)]
  /\ UNCHANGED <<wfdef, heap, ctxs, frames, calls>>

(***************************************************************************)
(* executeStep: the parts common to all step types                         *)
(***************************************************************************)
\* (a variant: a step id that is not in workflow.steps is passed over)
StepNotFoundSkipped(f) ==
  /\ At(f, "notfound")
  /\ frames' = Settle(frames, f, "ok", Undefined)
  /\ UNCHANGED <<wfdef, heap, ctxs, calls, run>>

\* a step id that is not in workflow.steps: the call is rejected (NotFound)
StepNotFound(f) ==
  /\ At(f, "notfound")
  /\ frames' = Settle(frames, f, "err", Err("Step not found", 0))
  /\ UNCHANGED <<wfdef, heap, ctxs, calls, run>>

\* (a variant: executeHook is not awaited)
HooksDoneAtOnce(f) == TRUE

\* `await instance.executeHook(...)` of activation f goes on: no hook of
\* the event is awaited any more
HooksDone(f) == ~frames[f].hrun

\* the hook awaited by activation f has settled: fulfilled, the loop calls
\* the next hook of the event if there is one; rejected, executeHook is
\* rejected with its error, which leaves executeStep when it is raised by
\* a start hook (before the try) or an error hook (in the catch) and is
\* caught when it is raised by an end hook
HookReturned(f) ==
  /\ f \in DOMAIN frames
  /\ frames[f].st = "run"
  /\ frames[f].pc \in HookPcs
  /\ frames[f].hrun
  /\ LET fr == frames[f]
         hs == hooks[EventOf(fr.pc)]
         k == fr.hk + 1
         fs == [frames EXCEPT ![f].hrun = FALSE]
     IN IF hs[k] = "ok"
        THEN frames' = [frames EXCEPT ![f].hk = k, ![f].hrun = k < Len(hs)]
        ELSE IF fr.pc = "hookEnd"
        THEN frames' = Throw(fs, f, Err("hook", k))
        ELSE frames' = Settle(fs, f, "err", Err("hook", k))
  /\ UNCHANGED <<wfdef, heap, ctxs, calls, run>>

\* the onWorkflowStepStart hooks have run
HookStartDone(f) ==
  /\ At(f, "hookStart")
  /\ HooksDone(f)
  /\ frames' = [frames EXCEPT ![f].pc = "dispatch"]
  /\ UNCHANGED <<wfdef, heap, ctxs, calls, run>>

\* (a variant: storing the result of a step removes the error kept under
\* its id)
StoreResultClearsError(f) ==
  /\ At(f, "store")
  /\ ctxs' = [ctxs EXCEPT ![frames[f].cx].steps =
                 Put(@, frames[f].step, frames[f].res),
                          ![frames[f].cx].errors =
                 [k \in DOMAIN @ \ {frames[f].step} |-> @[k]]]
  /\ frames' = [frames EXCEPT ![f] = Hooking(@, "hookEnd")]
  /\ UNCHANGED <<wfdef, heap, calls, run>>

\* context.steps[stepId] = result, then the onWorkflowStepEnd hooks
StoreResult(f) ==
  /\ At(f, "store")
  /\ ctxs' = [ctxs EXCEPT ![frames[f].cx].steps =
                 Put(@, frames[f].step, frames[f].res)]
  /\ frames' = [frames EXCEPT ![f] = Hooking(@, "hookEnd")]
  /\ UNCHANGED <<wfdef, heap, calls, run>>

\* `if (step.next)`: the successor declared by a step, as the list of the
\* ids executeStep is called on; "none" when the result is returned
Successors(step) ==
  CASE step.next.k = "list" -> step.next.ids
    [] step.next.k = "one" /\ step.next.id # "" -> <<step.next.id>>
    [] OTHER -> <<>>

HasSuccessor(step) ==
  step.next.k = "list" \/ (step.next.k = "one" /\ step.next.id # "")

\* after the end hooks: follow step.next, or return the result
FollowNext(f) ==
  /\ At(f, "hookEnd")
  /\ HooksDone(f)
  /\ LET fr == frames[f]
         ids == Successors(StepOf(f))
         cxs == [i \in 1..Len(ids) |-> fr.cx]
     IN IF HasSuccessor(StepOf(f))
        THEN /\ Len(frames) + Len(ids) <= MaxFrames
             /\ frames' = Spawn(frames, f, ids, cxs, fr.bud, "call",
                                IF StepOf(f).next.k = "list" THEN "all" ELSE "one",
                                "awaitNext")
             /\ ctxs' = SetCurrent(ctxs, ids, cxs)
        ELSE /\ frames' = Settle(frames, f, "ok", fr.res)
             /\ ctxs' = ctxs
  /\ UNCHANGED <<wfdef, heap, calls, run>>

\* (a variant: the step returns its own result, not the successor's)
NextSettledOwn(f) ==
  /\ At(f, "awaitNext")
  /\ Joined(f)
  /\ frames' = Settle(frames, f, "ok", frames[f].res)
  /\ UNCHANGED <<wfdef, heap, ctxs, calls, run>>

\* the successor traversal has settled; its failure is caught by this step
NextSettled(f) ==
  /\ At(f, "awaitNext")
  /\ Joined(f)
  /\ LET j == frames[f].join
         a == <<"next", f, "">>
     IN IF j.st = "ok"
        THEN /\ frames' = Settle(frames, f, "ok", Taken(a, j.v))
             /\ heap' = TakenHeap(heap, a, j.v)
        ELSE /\ frames' = Throw(frames, f, j.v)
             /\ heap' = heap
  /\ UNCHANGED <<wfdef, ctxs, calls, run>>

\* catch (error): context.errors[stepId] = error, then the error hooks
CatchError(f) ==
  /\ At(f, "catch")
  /\ ctxs' = [ctxs EXCEPT ![frames[f].cx].errors =
                 Put(@, frames[f].step, frames[f].err)]
  /\ frames' = [frames EXCEPT ![f] = Hooking(@, "hookError")]
  /\ UNCHANGED <<wfdef, heap, calls, run>>

\* (a variant: the retry is made with the budget unchanged)
RetryCallSameBudget(fs, f) ==
  Spawn(fs, f, <<fs[f].step>>, <<fs[f].cx>>, fs[f].bud, "retry", "one", "tail")

\* the retry of a Task step: executeStep on the same id, with a copy of the
\* workflow in which the step's budget is one less
RetryCall(fs, f) ==
  Spawn(fs, f, <<fs[f].step>>, <<fs[f].cx>>,
        [fs[f].bud EXCEPT ![fs[f].step] = @ - 1], "retry", "one", "tail")

\* (a variant: the step fails with the error of its own attempt)
RetrySettledFirst(f) ==
  /\ At(f, "tail")
  /\ Joined(f)
  /\ frames' = Settle(frames, f, frames[f].join.st,
                      IF frames[f].join.st = "err" THEN frames[f].err
                      ELSE frames[f].join.v)
  /\ UNCHANGED <<wfdef, heap, ctxs, calls, run>>

\* (a variant: the budget is decremented in the stored definition)
StoredStepsInPlace(d, stepId) == [d EXCEPT ![stepId].retries = @ - 1]

\* the stored definition after `retryStep` and the workflow passed to the
\* retry have been built: both are fresh objects made by spreading, so
\* workflow.steps[stepId] of the stored definition is what it was
StoredSteps(d, stepId) == d

\* after the error hooks: retry a Task step that has budget left (after the
\* configured delay), else raise the error again
RetryOrRaise(f) ==
  /\ At(f, "hookError")
  /\ HooksDone(f)
  /\ LET fr == frames[f]
     IN IF StepOf(f).type = "task" /\ fr.bud[fr.step] > 0
        THEN /\ def' = StoredSteps(def, fr.step)
             /\ IF StepOf(f).retryDelay # 0
                THEN /\ frames' = [frames EXCEPT ![f].pc = "retryDelay"]
                     /\ ctxs' = ctxs
                ELSE /\ Len(frames) < MaxFrames
                     /\ frames' = RetryCall(frames, f)
                     /\ ctxs' = SetCurrent(ctxs, <<fr.step>>, <<fr.cx>>)
        ELSE /\ frames' = Settle(frames, f, "err", fr.err)
             /\ ctxs' = ctxs
             /\ def' = def
  /\ UNCHANGED <<scn, entry, declared, built, tasks, hooks, orch, heap, calls, run>>

\* the retry delay has elapsed
RetryDelayDone(f) ==
  /\ At(f, "retryDelay")
  /\ Len(frames) < MaxFrames
  /\ frames' = RetryCall(frames, f)
  /\ ctxs' = SetCurrent(ctxs, <<frames[f].step>>, <<frames[f].cx>>)
  /\ UNCHANGED <<wfdef, heap, calls, run>>

\* `return executeStep(...)` of the retry: the step settles as the retry does
RetrySettled(f) ==
  /\ At(f, "tail")
  /\ Joined(f)
  /\ frames' = Settle(frames, f, frames[f].join.st, frames[f].join.v)
  /\ UNCHANGED <<wfdef, heap, ctxs, calls, run>>

(***************************************************************************)
(* executeTaskStep                                                         *)
(***************************************************************************)
\* (a variant: a plain key is looked up on the context, not on its input)
SourceValueOnContext(src, h, c) ==
  IF src.k = "fn" THEN Ok(GetPath(h, CtxVal(c), src.p))
  ELSE IF StartsWithSteps(src.p) THEN Ok(GetPath(h, CtxVal(c), src.p))
  ELSE Ok(GetKey(h, CtxVal(c), Dotted(src.p)))

\* one entry of the input mapping: the value of taskInput[targetKey], or a
\* TypeError when the workflow input that a plain key is read from is
\* null or undefined
SourceValue(src, h, c) ==
  IF src.k = "fn" THEN Ok(GetPath(h, CtxVal(c), src.p))
  ELSE IF StartsWithSteps(src.p) THEN Ok(GetPath(h, CtxVal(c), src.p))
  ELSE IF c.input.t \in {"undef", "null"} THEN Ko(Err("TypeError", 0))
  ELSE Ok(GetKey(h, c.input, Dotted(src.p)))

\* the loop over Object.entries(inputMap) from entry k on, writing to the
\* object tin, up to the next await (a function source) or the end of the
\* loop: [k: the entry to go on with, h: the heap, ok: no exception]
RECURSIVE InputMapFrom(_, _, _, _, _)
InputMapFrom(m, k, h, tin, c) ==
  IF k > Len(m) THEN [k |-> k, h |-> h, ok |-> TRUE, wait |-> FALSE, e |-> Undefined]
  ELSE LET r == SourceValue(m[k][2], h, c)
           h1 == Assign(h, tin, m[k][1], r.v).h
       IN IF ~r.ok THEN [k |-> k, h |-> h, ok |-> FALSE, wait |-> FALSE, e |-> r.v]
          ELSE IF m[k][2].k = "fn"
               THEN [k |-> k + 1, h |-> h1, ok |-> TRUE, wait |-> TRUE, e |-> Undefined]
               ELSE InputMapFrom(m, k + 1, h1, tin, c)

\* the preparation of the task input from entry k on, and then the call
\* task.execute(taskInput)
PrepareAndCall(f, k, h, tin) ==
  LET fr == frames[f]
      r == InputMapFrom(StepOf(f).inputMap.m, k, h, tin, ctxs[fr.cx])
  IN /\ heap' = r.h
     /\ IF ~r.ok
        THEN /\ frames' = Throw([frames EXCEPT ![f].tin = tin], f, r.e)
             /\ calls' = calls
        ELSE IF r.wait
        THEN /\ frames' = [frames EXCEPT ![f].pc = "inputMap", ![f].k = r.k,
                                         ![f].tin = tin]
             /\ calls' = calls
        ELSE /\ frames' = [frames EXCEPT ![f].pc = "work", ![f].tin = tin]
             /\ calls' = Append(calls, [task |-> StepOf(f).taskName, fr |-> f,
                                        input |-> Deep(r.h, tin)])

\* let taskInput = context.input; if (inputMap) taskInput = {}
InitialInput(f) ==
  IF StepOf(f).inputMap.has THEN Ref(<<"tin", f, "">>)
  ELSE ctxs[frames[f].cx].input

InitialHeap(f) ==
  IF StepOf(f).inputMap.has THEN New(heap, <<"tin", f, "">>, ObjCell(EmptyMap))
  ELSE heap

\* case "task": the task lookup, then the gating predicate if there is one,
\* else the input preparation and the call of the unit of work
TaskBegin(f) ==
  /\ At(f, "dispatch")
  /\ StepOf(f).type = "task"
  /\ LET step == StepOf(f)
         g == EvalCond(step.condition, heap, ctxs[frames[f].cx], Len(calls))
     IN IF step.taskName \notin DOMAIN tasks
        THEN /\ frames' = Throw(frames, f, Err("Task not found", 0))
             /\ UNCHANGED <<heap, calls>>
        ELSE IF step.condition.k # "none"
        THEN /\ frames' = IF g.ok
                          THEN [frames EXCEPT ![f].pc = "gate", ![f].b = g.v]
                          ELSE Throw(frames, f, g.v)
             /\ UNCHANGED <<heap, calls>>
        ELSE PrepareAndCall(f, 1, InitialHeap(f), InitialInput(f))
  /\ UNCHANGED <<wfdef, ctxs, run>>

\* (a variant: the answer of the gating predicate is ignored)
GateDoneRuns(f) ==
  /\ At(f, "gate")
  /\ PrepareAndCall(f, 1, InitialHeap(f), InitialInput(f))
  /\ UNCHANGED <<wfdef, ctxs, run>>

\* the gating predicate has answered: false skips the task (result null)
GateDone(f) ==
  /\ At(f, "gate")
  /\ IF ~frames[f].b
     THEN /\ frames' = [frames EXCEPT ![f].pc = "store", ![f].res = Null]
          /\ UNCHANGED <<heap, calls>>
     ELSE PrepareAndCall(f, 1, InitialHeap(f), InitialInput(f))
  /\ UNCHANGED <<wfdef, ctxs, run>>

\* a function source of the input mapping has answered
InputMapResume(f) ==
  /\ At(f, "inputMap")
  /\ PrepareAndCall(f, frames[f].k, heap, frames[f].tin)
  /\ UNCHANGED <<wfdef, ctxs, run>>

\* the loop over Object.entries(outputMap), by activation f on the object
\* out that context.output holds: [ok, h: the heap after the entries that
\* were applied]; an entry raises a TypeError when the result is null or
\* undefined, or when the target path runs into null or a primitive
RECURSIVE OutputMapFrom(_, _, _, _, _, _)
OutputMapFrom(m, k, h, f, out, result) ==
  IF k > Len(m) THEN Done(h)
  ELSE IF result.t \in {"undef", "null"} THEN Thrown(h)
  ELSE LET value == GetKey(h, result, m[k][1])
           path == m[k][2]
           r == IF Len(path) > 1 THEN SetPath(h, f, out, path, <<>>, value)
                ELSE Assign(h, out, path[1], value)
       IN IF r.ok THEN OutputMapFrom(m, k + 1, r.h, f, out, result)
          ELSE Thrown(r.h)

\* "Apply output mapping": the mapping if one is declared, else
\* Object.assign(context.output, result), which raises when context.output
\* is null or undefined and leaves a primitive as it is
ApplyOutput(step, h, f, out, result) ==
  IF step.outputMap.has
  THEN OutputMapFrom(step.outputMap.m, 1, h, f, out, result)
  ELSE IF out.t \in {"undef", "null"} THEN Thrown(h)
  ELSE IF out.t # "ref" THEN Done(h)
  ELSE IF h[out.r].k = "obj"
       THEN Done([h EXCEPT ![out.r].o = Merge(@, OwnProps(h, result))])
       ELSE Done([h EXCEPT ![out.r].o =
                    Merge(@, [k \in DOMAIN OwnProps(h, result)
                                     \ DOMAIN IndexMap(h[out.r].a) |->
                                OwnProps(h, result)[k]]),
                           ![out.r].a =
                    [i \in 1..Len(@) |->
                       IF IdxKey[i] \in DOMAIN OwnProps(h, result)
                       THEN OwnProps(h, result)[IdxKey[i]] ELSE @[i]]])

\* the number of the invocation of task.execute made by activation f
CallOf(f) == CHOOSE i \in 1..Len(calls) : calls[i].fr = f

\* task.execute has settled: on success the output mapping is applied and
\* the result returned, on failure the error is raised
TaskWorkDone(f) ==
  /\ At(f, "work")
  /\ LET step == StepOf(f)
         cx == frames[f].cx
     IN \E o \in TaskOutcomes(tasks[step.taskName], step.taskName, heap,
                              frames[f].tin, CallOf(f)) :
          IF o.ok
          THEN LET result == ValueIn("res", f, "", o.v)
                   r == ApplyOutput(step, Inst(heap, "res", f, o.v), f,
                                    ctxs[cx].output, result)
               IN /\ heap' = r.h
                  /\ frames' = IF r.ok
                               THEN [frames EXCEPT ![f].pc = "store",
                                                   ![f].res = result]
                               ELSE Throw(frames, f, Err("TypeError", CallOf(f)))
          ELSE /\ heap' = heap
               /\ frames' = Throw(frames, f, o.v)
  /\ UNCHANGED <<wfdef, ctxs, calls, run>>

(***************************************************************************)
(* executeParallelStep and executeConditionStep                            *)
(***************************************************************************)
\* case "parallel": executeStep is called on every branch, on the shared
\* context, and Promise.all or Promise.race of the calls is awaited
ParallelBegin(f) ==
  /\ At(f, "dispatch")
  /\ StepOf(f).type = "parallel"
  /\ LET ids == StepOf(f).branches
         cxs == [i \in 1..Len(ids) |-> frames[f].cx]
     IN /\ Len(frames) + Len(ids) <= MaxFrames
        /\ frames' = Spawn(frames, f, ids, cxs, frames[f].bud, "call",
                           IF StepOf(f).waitForAll THEN "all" ELSE "race",
                           "awaitBranches")
        /\ ctxs' = SetCurrent(ctxs, ids, cxs)
  /\ UNCHANGED <<wfdef, heap, calls, run>>

\* Promise.all / Promise.race has settled
ParallelSettled(f) ==
  /\ At(f, "awaitBranches")
  /\ Joined(f)
  /\ LET j == frames[f].join
         a == <<"all", f, "">>
     IN IF j.st = "ok"
        THEN /\ frames' = [frames EXCEPT ![f].pc = "store",
                                         ![f].res = Taken(a, j.v)]
             /\ heap' = TakenHeap(heap, a, j.v)
        ELSE /\ frames' = Throw(frames, f, j.v)
             /\ heap' = heap
  /\ UNCHANGED <<wfdef, ctxs, calls, run>>

\* case "condition": the predicate is called on the context
ConditionBegin(f) ==
  /\ At(f, "dispatch")
  /\ StepOf(f).type = "condition"
  /\ LET g == EvalCond(StepOf(f).condition, heap, ctxs[frames[f].cx], Len(calls))
     IN frames' = IF g.ok
                  THEN [frames EXCEPT ![f].pc = "predicate", ![f].b = g.v]
                  ELSE Throw(frames, f, g.v)
  /\ UNCHANGED <<wfdef, heap, ctxs, calls, run>>

\* (a variant: the predicate's answer is taken the other way round)
ConditionBranchSwapped(f) ==
  /\ At(f, "predicate")
  /\ LET id == IF frames[f].b THEN StepOf(f).falseNext ELSE StepOf(f).trueNext
     IN /\ Len(frames) < MaxFrames
        /\ frames' = Spawn(frames, f, <<id>>, <<frames[f].cx>>, frames[f].bud,
                           "call", "one", "awaitBranch")
        /\ ctxs' = SetCurrent(ctxs, <<id>>, <<frames[f].cx>>)
  /\ UNCHANGED <<wfdef, heap, calls, run>>

\* the predicate has answered: executeStep(result ? trueNext : falseNext)
ConditionBranch(f) ==
  /\ At(f, "predicate")
  /\ LET id == IF frames[f].b THEN StepOf(f).trueNext ELSE StepOf(f).falseNext
     IN /\ Len(frames) < MaxFrames
        /\ frames' = Spawn(frames, f, <<id>>, <<frames[f].cx>>, frames[f].bud,
                           "call", "one", "awaitBranch")
        /\ ctxs' = SetCurrent(ctxs, <<id>>, <<frames[f].cx>>)
  /\ UNCHANGED <<wfdef, heap, calls, run>>

\* the chosen branch has settled
ConditionSettled(f) ==
  /\ At(f, "awaitBranch")
  /\ Joined(f)
  /\ frames' = IF frames[f].join.st = "ok"
               THEN [frames EXCEPT ![f].pc = "store", ![f].res = frames[f].join.v]
               ELSE Throw(frames, f, frames[f].join.v)
  /\ UNCHANGED <<wfdef, heap, ctxs, calls, run>>

(***************************************************************************)
(* executeMapStep                                                          *)
(***************************************************************************)
\* "Get items to iterate over": the value that the source names (a literal
\* list holds primitive items), or the TypeError of reading a key of a
\* workflow input that is null or undefined
ItemSource(items, h, c) ==
  IF items.k = "lit" THEN Ok(items.v)
  ELSE IF StartsWithSteps(items.p) THEN Ok(GetPath(h, CtxVal(c), items.p))
  ELSE IF c.input.t \in {"undef", "null"} THEN Ko(Err("TypeError", 0))
  ELSE Ok(GetKey(h, c.input, Dotted(items.p)))

\* Array.isArray(value), and the items of the array
ItemsIn(h, value) ==
  IF value.t = "arr" THEN Ok(value.a)
  ELSE IF IsArray(h, value) THEN Ok(h[value.r].a)
  ELSE Ko(Err("Map items must be an array", 0))

\* (a variant: a source that is not an array counts as no items)
ResolveItemsOrNone(items, h, c) ==
  LET value == ItemSource(items, h, c)
  IN IF value.ok /\ ItemsIn(h, value.v).ok THEN ItemsIn(h, value.v) ELSE Ok(<<>>)

\* the list of the items, or the error raised when the source does not
\* resolve to an array
ResolveItems(items, h, c) ==
  LET value == ItemSource(items, h, c)
  IN IF ~value.ok THEN value ELSE ItemsIn(h, value.v)

\* const {items, iteratorTask, concurrency = 5} = step.config
Concurrency(step) ==
  IF step.concurrency.has THEN step.concurrency.x ELSE DefaultConcurrency

\* (a variant: the batch is all the items that are left)
SliceRest(items, i, batchSize) == [j \in 1..(Len(items) - i) |-> items[i + j]]

\* items.slice(i, i + batchSize), for 0 <= i and 0 <= batchSize
Slice(items, i, batchSize) ==
  LET hi == IF i + batchSize < Len(items) THEN i + batchSize ELSE Len(items)
  IN [j \in 1..(hi - i) |-> items[i + j]]

\* (a variant: the sub-context keeps the output object of the context)
ItemContextSameOutput(c, cx, item, n) == [c EXCEPT !.input = item, !.parent = cx]

\* the sub-context number n of one item: {...context, input: item,
\* steps: {...context.steps}, output: {}, errors: {...context.errors},
\* metadata: {..., parentContext: context}}
ItemContext(c, cx, item, n) ==
  [c EXCEPT !.input = item, !.output = Ref(<<"out", n, "">>), !.parent = cx]

\* (a variant: the iterator runs on the context of the Map step itself)
ItemContextShared(f, n) == [j \in 1..n |-> frames[f].cx]

\* the contexts on which the iterator is called for a batch of n items: the
\* n sub-contexts that are created for them
ItemContextOf(f, n) == [j \in 1..n |-> Len(ctxs) + j]

\* the heap with the output objects of the sub-contexts from..to
RECURSIVE WithOutputs(_, _, _)
WithOutputs(h, from, to) ==
  IF from > to THEN h
  ELSE WithOutputs(New(h, <<"out", from, "">>, ObjCell(EmptyMap)), from + 1, to)

\* one turn of the loop of processBatch at index i with the results acc:
\* the next batch is started, or the results are returned
BatchFrom(f, items, i, acc) ==
  LET fr == frames[f]
      step == StepOf(f)
      batch == Slice(items, i, Concurrency(step))
      ids == [j \in 1..Len(batch) |-> step.iteratorTask]
      cxs == ItemContextOf(f, Len(batch))
      cs1 == ctxs \o [j \in 1..Len(batch) |->
                        ItemContext(ctxs[fr.cx], fr.cx, batch[j], Len(ctxs) + j)]
      fs1 == [frames EXCEPT ![f].items = items, ![f].bi = i, ![f].acc = acc]
  IN IF i < Len(items)
     THEN /\ Len(frames) + Len(batch) <= MaxFrames
          /\ frames' = Spawn(fs1, f, ids, cxs, fr.bud, "call", "all", "awaitBatch")
          /\ ctxs' = SetCurrent(cs1, ids, cxs)
          /\ heap' = WithOutputs(heap, Len(ctxs) + 1, Len(ctxs) + Len(batch))
     ELSE /\ frames' = [fs1 EXCEPT ![f].pc = "store",
                                   ![f].res = Ref(<<"map", f, "">>)]
          /\ ctxs' = ctxs
          /\ heap' = New(heap, <<"map", f, "">>, ArrCell(acc))

\* case "map": the items are resolved and the first batch is started
MapBegin(f) ==
  /\ At(f, "dispatch")
  /\ StepOf(f).type = "map"
  /\ LET r == ResolveItems(StepOf(f).items, heap, ctxs[frames[f].cx])
     IN IF r.ok
        THEN BatchFrom(f, r.v, 0, <<>>)
        ELSE /\ frames' = Throw(frames, f, r.v)
             /\ UNCHANGED <<heap, ctxs>>
  /\ UNCHANGED <<wfdef, calls, run>>

\* (a variant: the results of a batch are put before those of the batches
\* before it)
MapBatchSettledPrepend(f) ==
  /\ At(f, "awaitBatch")
  /\ Joined(f)
  /\ LET fr == frames[f]
     IN IF fr.join.st = "ok"
        THEN BatchFrom(f, fr.items, fr.bi + Concurrency(StepOf(f)),
                       fr.join.v.a \o fr.acc)
        ELSE /\ frames' = Throw(frames, f, fr.join.v)
             /\ UNCHANGED <<heap, ctxs>>
  /\ UNCHANGED <<wfdef, calls, run>>

\* Promise.all(batchPromises) has settled: results.push(...batchResults) and
\* the loop goes on with i += batchSize
MapBatchSettled(f) ==
  /\ At(f, "awaitBatch")
  /\ Joined(f)
  /\ LET fr == frames[f]
     IN IF fr.join.st = "ok"
        THEN BatchFrom(f, fr.items, fr.bi + Concurrency(StepOf(f)),
                       fr.acc \o fr.join.v.a)
        ELSE /\ frames' = Throw(frames, f, fr.join.v)
             /\ UNCHANGED <<heap, ctxs>>
  /\ UNCHANGED <<wfdef, calls, run>>

(***************************************************************************)
(* executeRetryStep                                                        *)
(***************************************************************************)
\* the predicate (error, attempts) => boolean of a Retry step
EvalRetryCond(cond, error, attempts) ==
  CASE cond.k = "const" -> Ok(cond.b)
    [] cond.k = "below" -> Ok(attempts < cond.n)
    [] cond.k = "throws" -> Ko(Err("predicate", attempts))

CondBelow(n) == [k |-> "below", n |-> n]

\* `${stepId}_attempt_${attempts}`
AttemptKey(stepId, attempts) == stepId \o "_attempt_" \o IdxKey[attempts + 1]

\* delay * Math.pow(backoffFactor, attempts)
RECURSIVE Pow(_, _)
Pow(b, n) == IF n = 0 THEN 1 ELSE b * Pow(b, n - 1)

\* const {stepId, maxRetries, delay = 1000, backoffFactor = 1, condition}
Delay(step) == IF step.delay.has THEN step.delay.x ELSE DefaultDelay

BackoffFactor(step) ==
  IF step.backoffFactor.has THEN step.backoffFactor.x ELSE DefaultBackoffFactor

\* (a variant: the exponent is the number of the attempt to come)
WaitTimeNext(step, attempts) ==
  Delay(step) * Pow(BackoffFactor(step), attempts + 1)

WaitTime(step, attempts) == Delay(step) * Pow(BackoffFactor(step), attempts)

\* case "retry": retry(0) calls executeStep on the target
RetryBegin(f) ==
  /\ At(f, "dispatch")
  /\ StepOf(f).type = "retry"
  /\ Len(frames) < MaxFrames
  /\ frames' = Spawn([frames EXCEPT ![f].att = 0], f, <<StepOf(f).stepId>>,
                     <<frames[f].cx>>, frames[f].bud, "call", "one", "awaitAttempt")
  /\ ctxs' = SetCurrent(ctxs, <<StepOf(f).stepId>>, <<frames[f].cx>>)
  /\ UNCHANGED <<wfdef, heap, calls, run>>

\* the attempt has settled: its result is returned, or its error is stored
\* and, if attempts < maxRetries, the predicate is asked or the wait started
RetryAttemptSettled(f) ==
  /\ At(f, "awaitAttempt")
  /\ Joined(f)
  /\ LET fr == frames[f]
         step == StepOf(f)
         e == fr.join.v
         g == EvalRetryCond(step.condition, e, fr.att)
     IN IF fr.join.st = "ok"
        THEN /\ frames' = [frames EXCEPT ![f].pc = "store", ![f].res = fr.join.v]
             /\ ctxs' = ctxs
        ELSE /\ ctxs' = [ctxs EXCEPT ![fr.cx].errors =
                            Put(@, AttemptKey(step.stepId, fr.att), e)]
             /\ frames' =
                  IF fr.att < step.maxRetries
                  THEN IF step.condition.k # "none"
                       THEN IF g.ok
                            THEN [frames EXCEPT ![f].pc = "retryPredicate",
                                                ![f].b = g.v, ![f].err = e]
                            ELSE Throw(frames, f, g.v)
                       ELSE [frames EXCEPT ![f].pc = "retryWait", ![f].err = e,
                                           ![f].wait = @ + WaitTime(step, fr.att)]
                  ELSE Throw(frames, f, e)
  /\ UNCHANGED <<wfdef, heap, calls, run>>

\* (a variant: the answer of the predicate is ignored)
RetryPredicateDoneAlways(f) ==
  /\ At(f, "retryPredicate")
  /\ frames' = [frames EXCEPT ![f].pc = "retryWait",
                              ![f].wait = @ + WaitTime(StepOf(f), frames[f].att)]
  /\ UNCHANGED <<wfdef, heap, ctxs, calls, run>>

\* the predicate has answered: false raises the error, true starts the wait
RetryPredicateDone(f) ==
  /\ At(f, "retryPredicate")
  /\ frames' = IF frames[f].b
               THEN [frames EXCEPT ![f].pc = "retryWait",
                                   ![f].wait = @ + WaitTime(StepOf(f), frames[f].att)]
               ELSE Throw(frames, f, frames[f].err)
  /\ UNCHANGED <<wfdef, heap, ctxs, calls, run>>

\* the wait has elapsed: retry(attempts + 1)
RetryWaitDone(f) ==
  /\ At(f, "retryWait")
  /\ Len(frames) < MaxFrames
  /\ frames' = Spawn([frames EXCEPT ![f].att = @ + 1], f, <<StepOf(f).stepId>>,
                     <<frames[f].cx>>, frames[f].bud, "call", "one", "awaitAttempt")
  /\ ctxs' = SetCurrent(ctxs, <<StepOf(f).stepId>>, <<frames[f].cx>>)
  /\ UNCHANGED <<wfdef, heap, calls, run>>

(***************************************************************************)
(* The orchestrator (core/orchestrator.ts).  An activation of executeTask  *)
(* is a record of invs; its awaits are the points between the actions.     *)
(* The inputs and results of the executors are object literals.            *)
(***************************************************************************)
\* bound on the number of activations of executeTask
MaxInvocations == 3

\* bound on the milliseconds that pass
MaxClock == 1

\* a || b on values
OrElse(a, b) == IF Truthy(a) THEN a ELSE b

\* the objects here are literals: lookups need no heap
NoHeap == <<>>

Range(s) == {s[i] : i \in 1..Len(s)}

RECURSIVE Sum(_)
Sum(s) == IF s = <<>> THEN 0 ELSE Head(s) + Sum(Tail(s))

\* interface TaskDefinition (requiredCapabilities and the names of the
\* evaluationCriteria are optional lists, maxAttempts an optional number)
TaskDefinition(name, description, goal, input, expectedOutput, requiredCapabilities, evaluationCriteria, maxAttempts) ==
  [name |-> name, description |-> description, goal |-> goal, input |-> input,
   expectedOutput |-> expectedOutput,
   requiredCapabilities |-> requiredCapabilities,
   evaluationCriteria |-> evaluationCriteria, maxAttempts |-> maxAttempts]

\* DecompositionStrategy.AUTO
AUTO == "auto"

\* analyzeTask: the analysis suggests AUTO for every task
analyzeTask(taskDefinition, input) ==
  [complexity |-> "medium", estimatedTime |-> "5m",
   decompositionStrategy |-> AUTO,
   suggestedCapabilities |->
     IF taskDefinition.requiredCapabilities.has
     THEN taskDefinition.requiredCapabilities.x ELSE <<"general">>]

\* (a variant: every subtask requires all the capabilities of the task)
decomposeTaskAllCaps(taskDefinition, input, strategy) ==
  LET caps == taskDefinition.requiredCapabilities
  IN IF strategy = AUTO /\ (~caps.has \/ Len(caps.x) <= 1)
     THEN <<taskDefinition>>
     ELSE [j \in 1..Len(caps.x) |->
             TaskDefinition(taskDefinition.name \o "_" \o caps.x[j],
                            "Handle " \o caps.x[j] \o " aspect of "
                              \o taskDefinition.name,
                            taskDefinition.goal, input,
                            taskDefinition.expectedOutput, caps,
                            Absent, Undefined)]

\* decomposeTask: the task itself when it is simple, else one subtask for
\* each required capability
decomposeTask(taskDefinition, input, strategy) ==
  LET caps == taskDefinition.requiredCapabilities
      subtask(capability) ==
        [name |-> taskDefinition.name \o "_" \o capability,
         description |-> "Handle " \o capability \o " aspect of "
                           \o taskDefinition.name,
         goal |-> taskDefinition.goal,
         input |-> input,
         requiredCapabilities |-> Some(<<capability>>),
         expectedOutput |-> taskDefinition.expectedOutput,
         evaluationCriteria |-> Absent,
         maxAttempts |-> Undefined]
  IN IF strategy = AUTO /\ (~caps.has \/ Len(caps.x) <= 1)
     THEN <<taskDefinition>>
     ELSE IF caps.has /\ Len(caps.x) > 0
          THEN [j \in 1..Len(caps.x) |-> subtask(caps.x[j])]
          ELSE <<taskDefinition>>

\* agent.capabilities || ["general"]
CapabilitiesOf(agent) ==
  IF agent.capabilities.has THEN agent.capabilities.x ELSE <<"general">>

\* the place of a property name among the array indices ("0" is 1), or 0
\* when the name is no array index
IndexOf(name) ==
  IF \E i \in DOMAIN IdxKey : IdxKey[i] = name
  THEN CHOOSE i \in DOMAIN IdxKey : IdxKey[i] = name
  ELSE 0

\* Object.values(app.agents), as the list of the registration numbers: the
\* properties whose names are array indices come first, in ascending order
\* of the index, and then the other properties in the order of creation
ObjectValues(reg) ==
  LET indexed == {a \in DOMAIN reg : IndexOf(reg[a].name) # 0}
      named == DOMAIN reg \ indexed
      place(a) ==
        IF a \in indexed
        THEN Cardinality({b \in indexed :
                            IndexOf(reg[b].name) <= IndexOf(reg[a].name)})
        ELSE Cardinality(indexed) + Cardinality({b \in named : b <= a})
  IN [r \in 1..Len(reg) |-> CHOOSE a \in DOMAIN reg : place(a) = r]

\* requiredCapabilities.every((cap) => agentCapabilities.includes(cap))
Matches(agent, taskDefinition) ==
  LET required == IF taskDefinition.requiredCapabilities.has
                  THEN taskDefinition.requiredCapabilities.x
                  ELSE <<"general">>
  IN \A j \in 1..Len(required) : required[j] \in Range(CapabilitiesOf(agent))

\* (a variant: the first agent in the order of registration)
selectAgentRegistered(taskDefinition) ==
  LET matching == {a \in DOMAIN agents : Matches(agents[a], taskDefinition)}
  IN IF matching = {} THEN Ko(Err("No agent found", 0))
     ELSE Ok(CHOOSE a \in matching : \A b \in matching : a <= b)

\* selectAgent: the first agent, in the order of Object.values(app.agents),
\* that has every required capability; an error when there is none
selectAgent(taskDefinition) ==
  LET values == ObjectValues(agents)
      matching == {r \in 1..Len(values) : Matches(agents[values[r]], taskDefinition)}
  IN IF matching = {} THEN Ko(Err("No agent found", 0))
     ELSE Ok(values[CHOOSE r \in matching : \A q \in matching : r <= q])

\* if (capabilities.includes(cap) && !normalized[key] && normalized[from])
\*   normalized[key] = normalized[from]
Normalized(o, capabilities, cap, key, from) ==
  IF /\ cap \in Range(capabilities)
     /\ ~Truthy(GetKey(NoHeap, o, key))
     /\ Truthy(GetKey(NoHeap, o, from))
  THEN Obj(Put(o.o, key, GetKey(NoHeap, o, from)))
  ELSE o

\* normalizeInputForCapabilities
normalizeInputForCapabilities(input, capabilities) ==
  Normalized(
    Normalized(
      Normalized(Obj(OwnProps(NoHeap, input)), capabilities,
                 "research", "query", "topic"),
      capabilities, "visualize", "concept", "topic"),
    capabilities, "summarize", "text", "content")

\* (a variant: a key keeps the value of the first result that has it)
RECURSIVE CombinedFirst(_, _)
CombinedFirst(combined, results) ==
  IF results = <<>> THEN combined
  ELSE CombinedFirst(Merge(OwnProps(NoHeap, Head(results)), combined),
                     Tail(results))

\* Object.assign(combined, result) for every result, in order
RECURSIVE Combined(_, _)
Combined(combined, results) ==
  IF results = <<>> THEN combined
  ELSE Combined(Merge(combined, OwnProps(NoHeap, Head(results))), Tail(results))

\* aggregateResults
aggregateResults(taskDefinition, subtaskResults) ==
  IF Len(subtaskResults) = 1 THEN subtaskResults[1]
  ELSE Obj(Combined(EmptyMap, subtaskResults))

\* a score in hundredths, as the quotient num / den; 0 / 0 is NaN
Quotient(num, den) == [num |-> num, den |-> den]

One == Quotient(100, 1)

\* a >= threshold, for a threshold in hundredths (false for NaN)
AtLeast(q, threshold) == q.den # 0 /\ q.num >= threshold * q.den

\* (a variant: this.options.evaluationThreshold as it is)
ThresholdConfigured == options.evaluationThreshold

\* this.options.evaluationThreshold || 0.7
Threshold == IF options.evaluationThreshold # 0
             THEN options.evaluationThreshold ELSE 70

\* evaluateResult, where scores[j] is the score 0.5 + Math.random() * 0.5 of
\* criterion j, in hundredths
evaluateResult(taskDefinition, result, scores) ==
  IF ~options.enableAutoEvaluation
  THEN [passed |-> TRUE, score |-> One, criteria |-> Absent]
  ELSE IF ~taskDefinition.evaluationCriteria.has
  THEN [passed |-> TRUE, score |-> One, criteria |-> Absent]
  ELSE LET averageScore ==
             Quotient(Sum(scores), Len(taskDefinition.evaluationCriteria.x))
       IN [passed |-> AtLeast(averageScore, Threshold),
           score |-> averageScore,
           criteria |-> Some(scores)]

\* createContext
createContext(cs, taskId, input) ==
  (taskId :> [taskId |-> taskId, input |-> input,
              intermediateResults |-> EmptyMap, logs |-> <<>>,
              subtasks |-> <<>>, agents |-> EmptyMap, status |-> "pending"])
  @@ cs

\* logToContext
logToContext(cs, taskId, level, message) ==
  IF taskId \in DOMAIN cs
  THEN [cs EXCEPT ![taskId].logs = Append(@, [level |-> level, message |-> message])]
  ELSE cs

\* log.message.includes("Starting task")
IsStart(message) == message[1] = "Starting task: "

\* (a variant: the attempts are counted in the logs of all the contexts)
AttemptsInAll(cs, taskId) ==
  LET started[S \in SUBSET DOMAIN cs] ==
        IF S = {} THEN 0
        ELSE LET t == CHOOSE t \in S : TRUE
             IN started[S \ {t}]
                + Cardinality({j \in 1..Len(cs[t].logs) :
                                 IsStart(cs[t].logs[j].message)})
      n == started[DOMAIN cs]
  IN IF n # 0 THEN n ELSE 1

\* the attempts that handleEvaluation counts in the log of the context
Attempts(cs, taskId) ==
  LET n == IF taskId \in DOMAIN cs
           THEN Cardinality({j \in 1..Len(cs[taskId].logs) :
                               IsStart(cs[taskId].logs[j].message)})
           ELSE 0
  IN IF n # 0 THEN n ELSE 1

\* taskDefinition.maxAttempts || this.options.maxRetries || 2
AttemptLimit(taskDefinition) ==
  OrElse(taskDefinition.maxAttempts, OrElse(Num(options.maxRetries), Num(2))).n

\* `${taskDefinition.name}-${Date.now()}`
TaskId(taskDefinition) == <<taskDefinition.name, now>>

\* the activation of executeTask(taskDefinition, input) called by activation
\* par (0: by the user), up to its first await
NewInvocation(taskDefinition, input, par) ==
  [task |-> taskDefinition, input |-> input, par |-> par,
   taskId |-> TaskId(taskDefinition), pc |-> "analyze",
   subtasks |-> <<>>, k |-> 1, subtaskResults |-> <<>>,
   accumulatedData |-> EmptyObj, agent |-> Ok(0),
   aggregatedResult |-> Undefined, scores |-> <<>>, evaluation |-> Absent,
   finalResult |-> Undefined, child |-> 0, st |-> "run", v |-> Undefined]

\* the context of a new activation: created, with the start of the task logged
StartedContext(cs, taskDefinition, input) ==
  logToContext(createContext(cs, TaskId(taskDefinition), input),
               TaskId(taskDefinition), "info",
               <<"Starting task: ", taskDefinition.name>>)

Running(i, pc) == i \in DOMAIN invs /\ invs[i].st = "run" /\ invs[i].pc = pc

\* orchestrator.executeTask(taskDefinition, input), called by the user
ExecuteTask ==
  /\ invs = <<>>
  /\ \E input \in {Obj("topic" :> Str("tla")), EmptyObj} :
       /\ invs' = <<NewInvocation(tdef, input, 0)>>
       /\ contexts' = StartedContext(contexts, tdef, input)
  /\ UNCHANGED <<tdef, options, agents, dispatches, now, wfvars>>

\* a millisecond passes
Tick ==
  /\ now < MaxClock
  /\ \E i \in DOMAIN invs : Running(i, "evaluate")
  /\ now' = now + 1
  /\ UNCHANGED <<tdef, options, agents, contexts, invs, dispatches, wfvars>>

\* error.message
Message(error) == IF error.t = "err" THEN error.e ELSE "undefined"

\* catch (error): the failure is logged, the context marked failed and the
\* error raised again
TaskFailed(i, error) ==
  IF error.t \in {"undef", "null"}
  THEN /\ invs' = [invs EXCEPT ![i].st = "err", ![i].v = Err("TypeError", i),
                               ![i].pc = "done"]
       /\ contexts' = contexts
  ELSE /\ invs' = [invs EXCEPT ![i].st = "err", ![i].v = error, ![i].pc = "done"]
       /\ contexts' =
            LET cs == logToContext(contexts, invs[i].taskId, "error",
                                   <<"Task failed: ", Message(error)>>)
            IN IF invs[i].taskId \in DOMAIN cs
               THEN [cs EXCEPT ![invs[i].taskId].status = "failed"]
               ELSE cs

\* 1. the analysis has answered; decomposeTask is called
TaskAnalyzed(i) ==
  /\ Running(i, "analyze")
  /\ invs' = [invs EXCEPT ![i].pc = "decompose",
                          ![i].subtasks =
                             decomposeTask(invs[i].task, invs[i].input,
                               analyzeTask(invs[i].task, invs[i].input)
                                 .decompositionStrategy)]
  /\ UNCHANGED <<tdef, options, agents, contexts, dispatches, now, wfvars>>

\* the turn of the loop over the subtasks at subtask k: selectAgent is
\* called, or, after the last one, aggregateResults
LoopAt(inv, k) ==
  IF k <= Len(inv.subtasks)
  THEN [inv EXCEPT !.k = k, !.pc = "select",
                   !.agent = selectAgent(inv.subtasks[k])]
  ELSE [inv EXCEPT !.k = k, !.pc = "aggregate",
                   !.aggregatedResult =
                      aggregateResults(inv.task, inv.subtaskResults)]

\* 2. the subtasks are saved to the context, accumulatedData = {...input}
TaskDecomposed(i) ==
  /\ Running(i, "decompose")
  /\ invs' = [invs EXCEPT ![i] =
                LoopAt([invs[i] EXCEPT !.accumulatedData =
                           Obj(OwnProps(NoHeap, invs[i].input))], 1)]
  /\ contexts' =
       IF invs[i].taskId \in DOMAIN contexts
       THEN [contexts EXCEPT ![invs[i].taskId].subtasks =
               [j \in 1..Len(invs[i].subtasks) |-> invs[i].subtasks[j].name]]
       ELSE contexts
  /\ UNCHANGED <<tdef, options, agents, dispatches, now, wfvars>>

\* 4.-5. the agent is selected (or none is found); its name is saved and
\* agent.execute is called on the normalized accumulated data
AgentSelected(i) ==
  /\ Running(i, "select")
  /\ LET inv == invs[i]
         subtask == inv.subtasks[inv.k]
         agent == agents[inv.agent.v]
         normalizedInput ==
           normalizeInputForCapabilities(inv.accumulatedData,
             IF agent.capabilities.has THEN agent.capabilities.x ELSE <<>>)
     IN IF ~inv.agent.ok
        THEN /\ TaskFailed(i, inv.agent.v)
             /\ dispatches' = dispatches
        ELSE /\ invs' = [invs EXCEPT ![i].pc = "execute"]
             /\ contexts' =
                  IF inv.taskId \in DOMAIN contexts
                  THEN [contexts EXCEPT ![inv.taskId].agents =
                          Put(@, subtask.name, agent.name)]
                  ELSE contexts
             /\ dispatches' = Append(dispatches,
                  [inv |-> i, k |-> inv.k, agent |-> agent.name,
                   task |-> subtask, input |-> normalizedInput,
                   out |-> Absent])
  /\ UNCHANGED <<tdef, options, agents, now, wfvars>>

\* the number of the dispatch made by activation i for its subtask k
DispatchOf(i, k) ==
  CHOOSE d \in 1..Len(dispatches) : dispatches[d].inv = i /\ dispatches[d].k = k

\* the outcomes of agent.execute(taskInfo, normalizedInput)
AgentOutcomes(agent, taskInfo, d) ==
  LET result == Obj(("by" :> Str(agent.name))
                    @@ (agent.name :> Str(taskInfo.name)))
  IN CASE agent.beh = "ok" -> {Ok(result)}
       [] agent.beh = "fail" -> {Ko(Err(agent.name, d))}
       [] agent.beh = "flaky" -> {Ok(result), Ko(Err(agent.name, d))}
       [] agent.beh = "silent" -> {Ok(Null)}
       [] agent.beh = "reject" -> {Ko(Undefined), Ko(Str("stop"))}

\* (a variant: the error the agent has raised, whatever it is)
RethrownSame(error, d) == error

\* executeWithAgent, catch (error): console.error(..., error.message), which
\* raises a TypeError when the agent has raised null or undefined, and then
\* throw error
Rethrown(error, d) ==
  IF error.t \in {"undef", "null"} THEN Err("TypeError", d) ELSE error

\* (a variant: accumulatedData is the input object itself, not a copy)
AccumulatedInPlace(inv, subtaskResult) ==
  [inv EXCEPT !.subtaskResults = Append(@, subtaskResult),
              !.accumulatedData =
                 Obj(Merge(@.o, OwnProps(NoHeap, subtaskResult))),
              !.input = Obj(Merge(inv.accumulatedData.o,
                                  OwnProps(NoHeap, subtaskResult)))]

\* subtaskResults.push(subtaskResult) and
\* Object.assign(accumulatedData, subtaskResult), on the copy of the input
\* that accumulatedData is
Accumulated(inv, subtaskResult) ==
  [inv EXCEPT !.subtaskResults = Append(@, subtaskResult),
              !.accumulatedData =
                 Obj(Merge(@.o, OwnProps(NoHeap, subtaskResult)))]

\* the agent has answered: the result is added to the results, merged into
\* the accumulated data and saved to the context, and the loop goes on
AgentReturned(i) ==
  /\ Running(i, "execute")
  /\ LET inv == invs[i]
         subtask == inv.subtasks[inv.k]
     IN \E o \in AgentOutcomes(agents[inv.agent.v], subtask, DispatchOf(i, inv.k)) :
          /\ dispatches' = [dispatches EXCEPT ![DispatchOf(i, inv.k)].out = Some(o)]
          /\ IF o.ok
             THEN /\ invs' = [invs EXCEPT ![i] =
                       LoopAt(Accumulated(inv, o.v), inv.k + 1)]
                  /\ contexts' =
                       IF inv.taskId \in DOMAIN contexts
                       THEN [contexts EXCEPT ![inv.taskId].intermediateResults =
                               Put(@, subtask.name, o.v)]
                       ELSE contexts
             ELSE TaskFailed(i, Rethrown(o.v, DispatchOf(i, inv.k)))
  /\ UNCHANGED <<tdef, options, agents, now, wfvars>>

\* the scores that Math.random can give (hundredths between 50 and 100)
Scores == {50, 90}

\* 6.-7. the results are aggregated; evaluateResult is called and draws a
\* score for each criterion
ResultsAggregated(i) ==
  /\ Running(i, "aggregate")
  /\ LET criteria == invs[i].task.evaluationCriteria
         n == IF criteria.has /\ options.enableAutoEvaluation
              THEN Len(criteria.x) ELSE 0
     IN \E scores \in [1..n -> Scores] :
          invs' = [invs EXCEPT ![i].pc = "evaluate",
                     ![i].scores = scores,
                     ![i].evaluation =
                        Some(evaluateResult(invs[i].task,
                                            invs[i].aggregatedResult, scores))]
  /\ UNCHANGED <<tdef, options, agents, contexts, dispatches, now, wfvars>>

\* {...result, _warning, _evaluation}
Annotated(result, evaluation) ==
  Obj(Merge(OwnProps(NoHeap, result),
            ("_warning" :> Str("This result did not meet all quality criteria"))
            @@ ("_evaluation" :> [t |-> "evaluation", ev |-> evaluation])))

\* {...originalInput, _previousAttempt: {result, evaluation, feedback}}
Enhanced(originalInput, result, evaluation) ==
  Obj(Put(OwnProps(NoHeap, originalInput), "_previousAttempt",
          Obj(("result" :> result)
              @@ ("evaluation" :> [t |-> "evaluation", ev |-> evaluation])
              @@ ("feedback" :> Str("Please improve on the previous attempt")))))

\* handleEvaluation goes on to retry: the attempts counted in the log of the
\* context do not exceed the limit
RetryDue(i) ==
  ~(Attempts(contexts, invs[i].taskId) > AttemptLimit(invs[i].task))

\* 8. the evaluation has answered; handleEvaluation returns the result when
\* it passed, the annotated result when the attempts are used up, and else
\* calls executeTask again with the enhanced input
ResultEvaluated(i) ==
  /\ Running(i, "evaluate")
  /\ LET inv == invs[i]
         result == inv.aggregatedResult
         evaluation == inv.evaluation.x
         enhancedInput == Enhanced(inv.input, result, evaluation)
     IN IF evaluation.passed
        THEN /\ invs' = [invs EXCEPT ![i].pc = "handled", ![i].finalResult = result]
             /\ contexts' = contexts
        ELSE IF ~RetryDue(i)
        THEN /\ invs' = [invs EXCEPT ![i].pc = "handled",
                           ![i].finalResult = Annotated(result, evaluation)]
             /\ contexts' = contexts
        ELSE /\ Len(invs) < MaxInvocations
             /\ invs' = Append([invs EXCEPT ![i].pc = "retrying",
                                            ![i].child = Len(invs) + 1],
                               NewInvocation(inv.task, enhancedInput, i))
             /\ contexts' = StartedContext(contexts, inv.task, enhancedInput)
  /\ UNCHANGED <<tdef, options, agents, dispatches, now, wfvars>>

\* the retry has settled: handleEvaluation settles as it did
RetryReturned(i) ==
  /\ Running(i, "retrying")
  /\ invs[invs[i].child].st # "run"
  /\ IF invs[invs[i].child].st = "ok"
     THEN /\ invs' = [invs EXCEPT ![i].pc = "handled",
                        ![i].finalResult = invs[invs[i].child].v]
          /\ contexts' = contexts
     ELSE TaskFailed(i, invs[invs[i].child].v)
  /\ UNCHANGED <<tdef, options, agents, dispatches, now, wfvars>>

\* handleEvaluation has returned: the context is marked completed and the
\* final result returned
EvaluationHandled(i) ==
  /\ Running(i, "handled")
  /\ invs' = [invs EXCEPT ![i].st = "ok", ![i].v = invs[i].finalResult,
                          ![i].pc = "done"]
  /\ contexts' =
       IF invs[i].taskId \in DOMAIN contexts
       THEN [contexts EXCEPT ![invs[i].taskId].status = "completed"]
       ELSE contexts
  /\ UNCHANGED <<tdef, options, agents, dispatches, now, wfvars>>

(***************************************************************************)
(* The workflows that are run.  A workflow is                              *)
(* [name, def: its steps, entry, tasks: the registry, input].              *)
(***************************************************************************)
\* largest retry budget of a Task step and largest maxRetries of a Retry step
MaxRetries == 2

\* largest number of items of a Map step
MaxItems == 5

\* largest concurrency of a Map step
MaxConc == 2

Workflow(name, d, e, t, input) ==
  [name |-> name, def |-> d, entry |-> e, tasks |-> t, input |-> input]

V7 == Obj("value" :> Num(7))

PlainTask(taskName, next) == TaskStep(taskName, NoMap, NoMap, NoCond, 0, 0, next)

Registry ==
  [n \in {"okA", "okB", "boom", "shaky", "fetch", "format", "total", "echo",
          "tree", "zero"} |->
     CASE n = "okA" -> Returns(Obj("a" :> Num(1)))
       [] n = "tree" -> Returns(Obj(("a" :> Obj("b" :> Obj("d" :> Num(4))))
                                    @@ ("k" :> Num(2))))
       [] n = "zero" -> Returns(Obj("a" :> Num(0)))
       [] n = "okB" -> Returns(Obj("b" :> Num(2)))
       [] n = "boom" -> Fails
       [] n = "shaky" -> Flaky(Obj("s" :> Num(3)))
       [] n = "fetch" -> Returns(V7)
       [] n = "format" -> Wraps("r", <<"x">>)
       [] n = "total" -> Wraps("total", <<"x">>)
       [] n = "echo" -> Wraps("out", <<>>)]

\* one Task step t with a retry budget, alone or after a step u that has a
\* budget of its own
RetryWorkflows ==
  {Workflow("retry",
            ("t" :> TaskStep(tn, NoMap, NoMap, NoCond, r, d, NoNext)),
            "t", Registry, EmptyObj)
     : tn \in {"boom", "shaky"}, r \in 0..MaxRetries, d \in {0, 10}}
  \cup
  {Workflow("retryChain",
            ("u" :> TaskStep("okA", NoMap, NoMap, NoCond, ru, 0, NextOne("t")))
            @@ ("t" :> TaskStep(tn, NoMap, NoMap, NoCond, r, 0, NoNext)),
            "u", Registry, EmptyObj)
     : tn \in {"boom", "shaky"}, ru \in {0, 1}, r \in 0..MaxRetries}

\* a Parallel step over [a, b]
ParallelWorkflows ==
  {Workflow("parallel",
            ("p" :> ParallelStep(<<"a", "b">>, w, nx))
            @@ ("a" :> PlainTask("okA", NoNext))
            @@ ("b" :> PlainTask(tb, NoNext))
            @@ ("z" :> PlainTask("okB", NoNext)),
            "p", Registry, EmptyObj)
     : w \in BOOLEAN, tb \in {"boom", "okB", "shaky"},
       nx \in {NoNext, NextOne("z")}}

\* every type of step as a start step without successor
SingleWorkflows ==
  {Workflow("single",
            ("task" :> TaskStep(tn, NoMap, NoMap, NoCond, 1, 0, NoNext))
            @@ ("parallel" :> ParallelStep(br, TRUE, NoNext))
            @@ ("condition" :> ConditionStep(CondConst(b), "a", "b", NoNext))
            @@ ("map" :> MapStep([k |-> "lit", v |-> Arr(<<Num(1), Num(2)>>)],
                                 "a", Some(2), NoNext))
            @@ ("retry" :> RetryStep("a", 1, Some(1000), Some(2), NoCond, NoNext))
            @@ ("a" :> PlainTask("okA", NoNext))
            @@ ("b" :> PlainTask("okB", NoNext)),
            e, Registry, EmptyObj)
     : tn \in {"okA", "shaky"}, b \in BOOLEAN, br \in {<<>>, <<"a", "b">>},
       e \in {"task", "parallel", "condition", "map", "retry"}}

\* fetch -> format: format reads steps.fetch.value and maps its result
SequenceWorkflows ==
  {Workflow("sequence",
            ("fetch" :> TaskStep("fetch", NoMap, om, NoCond, 0, 0, NextOne("format")))
            @@ ("format" :> TaskStep(tn,
                   MapOf(<<<<"x", SrcStr(<<"steps", "fetch", "value">>)>>>>),
                   MapOf(<<<<rk, <<"total">>>>>>), NoCond, 0, 0, NoNext)),
            "fetch", Registry, EmptyObj)
     : om \in {NoMap, MapOf(<<>>)},
       tn \in {"format", "total"}, rk \in {"r", "total"}}

\* a gated Task step g followed by n
GateWorkflows ==
  {Workflow("gate",
            ("g" :> TaskStep("okA", NoMap, NoMap, c, 0, 0, nx))
            @@ ("n" :> PlainTask("okB", NoNext)),
            "g", Registry, input)
     : c \in {CondConst(FALSE), CondConst(TRUE),
              CondTruthy(<<"input", "go">>), CondThrows},
       nx \in {NoNext, NextOne("n"), NextList(<<"n">>), NextOne("missing")},
       input \in {EmptyObj, Obj("go" :> Num(1))}}

ItemsOf(n) == [i \in 1..n |-> Num(10 + i)]

\* a Map step over n items, from a literal list or from the workflow input
MapWorkflows ==
  {Workflow("map",
            ("m" :> MapStep(IF lit THEN [k |-> "lit", v |-> Arr(ItemsOf(n))]
                            ELSE [k |-> "str", p |-> <<"list">>],
                            "it", Some(c), NoNext))
            @@ ("it" :> PlainTask("echo", NoNext)),
            "m", Registry, Obj("list" :> Arr(ItemsOf(n))))
     : n \in 0..MaxItems, c \in 1..MaxConc, lit \in BOOLEAN}
  \cup
  {Workflow("mapFail",
            ("m" :> MapStep(src, "it", Some(2), NoNext))
            @@ ("it" :> PlainTask("shaky", NoNext)),
            "m", Registry, Obj("list" :> Num(3)))
     : src \in {[k |-> "lit", v |-> Arr(ItemsOf(2))], [k |-> "str", p |-> <<"list">>],
                [k |-> "str", p |-> <<"steps", "none">>]}}

\* a Map step after a Task step pre, whose items are named by a path into
\* context.steps or by a key of the workflow input; the path or the key
\* may be missing, or hold a number, a string, an object or null
MapSourceWorkflows ==
  {Workflow("mapSource",
            ("pre" :> PlainTask("tree", NextOne("m")))
            @@ ("m" :> MapStep([k |-> "str", p |-> path], "it", Some(2), NoNext))
            @@ ("it" :> PlainTask("echo", NoNext)),
            "pre", Registry, input)
     : path \in {<<"steps", "pre">>, <<"steps", "pre", "k">>,
                 <<"steps", "none", "x">>, <<"steps", "pre", "list">>,
                 <<"list">>},
       input \in {EmptyObj, Null, Obj("list" :> Str("ab")),
                  Obj("list" :> Null), Obj("list" :> Obj("0" :> Num(1))),
                  Obj("list" :> Arr(ItemsOf(1)))}}

\* a Map step without concurrency over one item more than the default
\* (the iterator is gated off: it invokes no task), and a Map step whose
\* iterator may fail inside a Retry step
MapBatchWorkflows ==
  {Workflow("mapDefault",
            ("m" :> MapStep([k |-> "lit", v |-> Arr(ItemsOf(DefaultConcurrency + 1))],
                            "it", Absent, NoNext))
            @@ ("it" :> TaskStep("okA", NoMap, NoMap, CondConst(FALSE), 0, 0, NoNext)),
            "m", Registry, EmptyObj)}
  \cup
  {Workflow("mapRetried",
            ("rs" :> RetryStep("m", 1, Some(1000), Some(2), NoCond, NoNext))
            @@ ("m" :> MapStep([k |-> "lit", v |-> Arr(ItemsOf(n))],
                               "it", Some(2), NoNext))
            @@ ("it" :> PlainTask("shaky", NoNext)),
            "rs", Registry, EmptyObj)
     : n \in {2}}

\* a Retry step around a Task step
RetryStepWorkflows ==
  {Workflow("retryStep",
            ("rs" :> RetryStep("t", m, w[1], w[2], c, NoNext))
            @@ ("t" :> PlainTask(tn, NoNext)),
            "rs", Registry, EmptyObj)
     : m \in 0..MaxRetries, tn \in {"boom", "shaky"},
       c \in {NoCond, CondConst(TRUE), CondConst(FALSE), CondBelow(1),
              CondThrows},
       w \in {<<Some(1000), Some(2)>>, <<Absent, Absent>>,
              <<Some(100), Some(3)>>, <<Some(0), Absent>>}}

\* the first step of the nested workflows: its task and its output mapping
FirstWrites ==
  {<<"okA", MapOf(<<<<"a", p1>>>>)>> :
     p1 \in {<<"a", "b", "d">>, <<"a", "e">>, <<"a">>, <<"z">>, <<"a", "b">>}}
  \cup {<<"tree", NoMap>>, <<"zero", MapOf(<<<<"a", <<"a", "b">>>>>>)>>,
        <<"zero", MapOf(<<<<"a", <<"a">>>>>>)>>}

\* two Task steps that write below the same dotted prefix, the second one
\* with a function source in its input mapping
NestedWorkflows ==
  {Workflow("nested",
            ("s1" :> TaskStep(w[1], NoMap, w[2], NoCond, 0, 0, NextOne("s2")))
            @@ ("s2" :> TaskStep("total",
                   MapOf(<<<<"x", SrcStr(<<"q">>)>>,
                           <<"y", SrcFn(<<"steps", "s1", "a">>)>>>>),
                   MapOf(<<<<"total", p2>>>>), NoCond, 0, 0, NoNext)),
            "s1", Registry, Obj("q" :> Num(5)))
     : w \in FirstWrites, p2 \in {<<"a", "b", "c">>, <<"a", "c">>}}

\* a Condition step between two targets: yes has a successor of its own,
\* no may fail; the predicate is constant, reads input.go, or raises
ConditionWorkflows ==
  {Workflow("choice",
            ("choice" :> ConditionStep(c, "yes", "no", nx))
            @@ ("yes" :> PlainTask("okA", NextOne("after")))
            @@ ("after" :> PlainTask("fetch", NoNext))
            @@ ("no" :> PlainTask(tn, NoNext))
            @@ ("last" :> PlainTask("zero", NoNext)),
            "choice", Registry, input)
     : c \in {CondConst(FALSE), CondConst(TRUE),
              CondTruthy(<<"input", "go">>), CondThrows},
       nx \in {NoNext, NextOne("last")}, tn \in {"okB", "boom"},
       input \in {EmptyObj, Obj("go" :> Num(1)), Obj("go" :> Num(0))}}

\* largest number of steps of a linear chain
MaxChain == 3

\* the ids of the steps of a linear chain, in graph order
ChainIds == <<"t1", "t2", "t3", "t4", "t5">>

\* the task of the i-th step of a chain
ChainTask(i) == IF i % 3 = 1 THEN "okA" ELSE IF i % 3 = 2 THEN "fetch" ELSE "okB"

\* the linear chains t1 -> ... -> tn of Task steps that do not fail
ChainWorkflows ==
  {Workflow("chain",
            [id \in {ChainIds[i] : i \in 1..n} |->
               LET i == CHOOSE j \in 1..n : ChainIds[j] = id
               IN PlainTask(ChainTask(i),
                            IF i < n THEN NextOne(ChainIds[i + 1]) ELSE NoNext)],
            "t1", Registry, EmptyObj)
     : n \in 1..MaxChain}

\* largest number of hooks added for one event
MaxHooks == 2

\* the hooks that can be added for one event, in the order of the addHook
\* calls: each completes ("ok") or raises ("throws"), at most one raises
HookLists ==
  {hs \in UNION {[1..n -> {"ok", "throws"}] : n \in 0..MaxHooks} :
     Cardinality({k \in DOMAIN hs : hs[k] = "throws"}) <= 1}

\* the hooks of a run that has hooks: MaxHooks completing hooks for every
\* event but one, which has any of the lists
HookSets ==
  {[e \in StepEvents |-> IF e = ev THEN hs ELSE [k \in 1..MaxHooks |-> "ok"]]
     : ev \in StepEvents, hs \in HookLists}

\* two Task steps in sequence, run with hooks added for the step events
HookedWorkflows ==
  {Workflow("hooked",
            ("h1" :> TaskStep("shaky", NoMap, NoMap, NoCond, r, 0, NextOne("h2")))
            @@ ("h2" :> PlainTask(tn, NoNext)),
            "h1", Registry, EmptyObj)
     : r \in {0, 1}, tn \in {"okB", "boom"}}

Workflows ==
  RetryWorkflows \cup ParallelWorkflows \cup SingleWorkflows
  \cup SequenceWorkflows \cup GateWorkflows \cup MapWorkflows
  \cup RetryStepWorkflows \cup NestedWorkflows \cup ChainWorkflows
  \cup ConditionWorkflows \cup MapSourceWorkflows \cup MapBatchWorkflows

\* the orders in which the ids of S can be declared
Orders(S) == {s \in [1..Cardinality(S) -> S] : Range(s) = S}

\* one of the orders of S
RECURSIVE OneOrder(_)
OneOrder(S) ==
  IF S = {} THEN <<>>
  ELSE LET x == CHOOSE y \in S : TRUE IN <<x>> \o OneOrder(S \ {x})

\* the orders of declaration of the steps of workflow w: a definition
\* object may list its steps in any order (every order, for a chain)
DeclarationsOf(w) ==
  IF w.name = "chain" THEN Orders(DOMAIN w.def) ELSE {OneOrder(DOMAIN w.def)}

(***************************************************************************)
(* The tasks that are given to the orchestrator.                           *)
(***************************************************************************)
\* largest number of required capabilities of a task
MaxCaps == 3

\* largest maxAttempts of a task
MaxAttempts == 2

\* the capabilities that tasks require, in the order they are listed
Capabilities ==
  <<"research", "summarize", "visualize", "general", "translate", "review">>

\* the evaluationCriteria of a task: absent, {} or up to two criteria
Criteria == {Absent, Some(<<>>), Some(<<"quality">>), Some(<<"quality", "style">>)}

TaskDefinitions ==
  {TaskDefinition("report", "Write a report", "a report", EmptyObj, "text",
                  requiredCapabilities, evaluationCriteria, maxAttempts)
     : requiredCapabilities \in
         {Absent} \cup {Some(SubSeq(Capabilities, 1, n)) : n \in 0..MaxCaps},
       evaluationCriteria \in Criteria,
       maxAttempts \in {Undefined, Num(-1)} \cup {Num(n) : n \in 0..MaxAttempts}}

\* new OrchestratorCore(app, options): the defaults, evaluation switched
\* off, and thresholds and retry limits given (0 among them)
Options ==
  <<[enableAutoEvaluation |-> TRUE, evaluationThreshold |-> 70, maxRetries |-> 2],
    [enableAutoEvaluation |-> FALSE, evaluationThreshold |-> 70, maxRetries |-> 2],
    [enableAutoEvaluation |-> TRUE, evaluationThreshold |-> 0, maxRetries |-> 0],
    [enableAutoEvaluation |-> TRUE, evaluationThreshold |-> 90, maxRetries |-> 1]>>

\* instance.agent(name, {capabilities, execute}): capabilities || []
Agent(name, capabilities, beh) ==
  [name |-> name, capabilities |-> Some(capabilities), beh |-> beh]

Registries ==
  <<<<Agent("generalist", <<"general">>, "ok"),
     Agent("researcher", <<"research">>, "ok"),
     Agent("writer", <<"summarize", "visualize">>, "ok"),
     Agent("expert", <<"research", "summarize", "visualize", "translate">>, "ok")>>,
   <<Agent("expert", Capabilities, "flaky"),
     Agent("researcher", <<"research">>, "fail")>>,
   <<Agent("plain", <<>>, "ok"),
     Agent("researcher", <<"research", "general">>, "ok")>>,
   <<Agent("2", <<"research", "general">>, "ok"),
     Agent("writer", <<"summarize">>, "silent"),
     Agent("1", <<"research", "general">>, "ok"),
     Agent("extra", <<"visualize", "translate">>, "reject")>> >>

\* the programs that are run: the tasks without an attempt limit of their
\* own, with no criteria or two, under the default options and with every
\* registry; and the tasks of at most one capability, under every options
\* and with the first registry
Setups ==
  {s \in TaskDefinitions \X Range(Options) \X Range(Registries) :
     \/ /\ s[2] = Options[1]
        /\ s[1].maxAttempts = Undefined
        /\ s[1].evaluationCriteria \in {Absent, Some(<<"quality", "style">>)}
     \/ /\ s[3] = Registries[1]
        /\ s[1].requiredCapabilities.has => Len(s[1].requiredCapabilities.x) <= 1}

\* the builder has not been called
NotBuilt == [n |-> 0, call |-> <<>>, ok |-> TRUE]

\* no task has been given to the orchestrator
OrchestratorIdle ==
  /\ tdef = TaskDefinition("", "", "", EmptyObj, "", Absent, Absent, Undefined)
  /\ options = [enableAutoEvaluation |-> TRUE, evaluationThreshold |-> 70,
                maxRetries |-> 2]
  /\ agents = <<>>
  /\ contexts = <<>>
  /\ invs = <<>>
  /\ dispatches = <<>>
  /\ now = 0

\* no workflow is run
WorkflowIdle ==
  /\ scn = "orchestrator"
  /\ def = <<>>
  /\ entry = ""
  /\ declared = <<>>
  /\ built = NotBuilt
  /\ tasks = <<>>
  /\ hooks = NoHooks
  /\ heap = <<>>
  /\ ctxs = <<>>
  /\ frames = <<>>
  /\ calls = <<>>
  /\ run = [pc |-> "idle", input |-> Undefined, ret |-> Undefined,
            completed |-> 0, errored |-> 0,
              on |-> NoHandlers, ranCompleted |-> 0, ranError |-> 0]

(***************************************************************************)
(* The specification of a workflow run.                                    *)
(***************************************************************************)
Init ==
  \E w \in Workflows :
    /\ scn = w.name
    /\ def = w.def
    /\ entry = w.entry
    /\ declared \in DeclarationsOf(w)
    /\ built = NotBuilt
    /\ tasks = w.tasks
    /\ hooks = NoHooks
    /\ heap = <<>>
    /\ ctxs = <<>>
    /\ frames = <<>>
    /\ calls = <<>>
    /\ run = [pc |-> "idle", input |-> w.input, ret |-> Undefined,
              completed |-> 0, errored |-> 0,
              on |-> NoHandlers, ranCompleted |-> 0, ranError |-> 0]
    /\ OrchestratorIdle

Next ==
  \/ ExecuteStart
  \/ ExecuteWorkflow
  \/ ExecuteSettled
  \/ ExecuteReturn
  \/ ExecuteRaise
  \/ \E f \in DOMAIN frames : StepNotFound(f)
  \/ \E f \in DOMAIN frames : HookStartDone(f)
  \/ \E f \in DOMAIN frames : StoreResult(f)
  \/ \E f \in DOMAIN frames : FollowNext(f)
  \/ \E f \in DOMAIN frames : NextSettled(f)
  \/ \E f \in DOMAIN frames : CatchError(f)
  \/ \E f \in DOMAIN frames : RetryOrRaise(f)
  \/ \E f \in DOMAIN frames : RetryDelayDone(f)
  \/ \E f \in DOMAIN frames : RetrySettled(f)
  \/ \E f \in DOMAIN frames : TaskBegin(f)
  \/ \E f \in DOMAIN frames : GateDone(f)
  \/ \E f \in DOMAIN frames : InputMapResume(f)
  \/ \E f \in DOMAIN frames : TaskWorkDone(f)
  \/ \E f \in DOMAIN frames : ParallelBegin(f)
  \/ \E f \in DOMAIN frames : ParallelSettled(f)
  \/ \E f \in DOMAIN frames : ConditionBegin(f)
  \/ \E f \in DOMAIN frames : ConditionBranch(f)
  \/ \E f \in DOMAIN frames : ConditionSettled(f)
  \/ \E f \in DOMAIN frames : MapBegin(f)
  \/ \E f \in DOMAIN frames : MapBatchSettled(f)
  \/ \E f \in DOMAIN frames : RetryBegin(f)
  \/ \E f \in DOMAIN frames : RetryAttemptSettled(f)
  \/ \E f \in DOMAIN frames : RetryPredicateDone(f)
  \/ \E f \in DOMAIN frames : RetryWaitDone(f)

Spec == Init /\ [][Next]_wfvars

(***************************************************************************)
(* The fluent builder: app.workflow(id) and the calls on the builder it    *)
(* returns, followed by a run of the workflow that was built.              *)
(***************************************************************************)
\* bound on the number of calls of the builder before the workflow is run
MaxCalls == 3

\* the record of one more call of the builder
Called(call, ok) == [n |-> built.n + 1, call |-> call, ok |-> ok]

\* definition.steps[id] = step: a new key comes last, a key that exists
\* keeps its place
Declared(id) == IF id \in DOMAIN def THEN declared ELSE Append(declared, id)

\* the builder is called while the workflow is not running
Building == run.pc = "idle" /\ built.n < MaxCalls

\* task(id, {taskName}): rejected when the task is not registered; else the
\* step is stored, and it becomes the entry point if there is none
BuildTask(id, config) ==
  /\ Building
  /\ IF config.taskName \notin DOMAIN tasks
     THEN /\ built' = Called([k |-> "task", id |-> id], FALSE)
          /\ UNCHANGED <<def, entry, declared>>
     ELSE /\ built' = Called([k |-> "task", id |-> id], TRUE)
          /\ def' = Put(def, id, [config EXCEPT !.next = NoNext])
          /\ declared' = Declared(id)
          /\ entry' = IF entry = "" THEN id ELSE entry
  /\ UNCHANGED <<scn, tasks, hooks, orch, heap, ctxs, frames, calls, run>>

\* (a variant: the step also becomes the entry point if there is none)
BuildParallelEntry(id, branches, waitForAll) ==
  /\ Building
  /\ built' = Called([k |-> "parallel", id |-> id, refs |-> branches], TRUE)
  /\ def' = Put(def, id, ParallelStep(branches, waitForAll, NoNext))
  /\ declared' = Declared(id)
  /\ entry' = IF entry = "" THEN id ELSE entry
  /\ UNCHANGED <<scn, tasks, hooks, orch, heap, ctxs, frames, calls, run>>

\* parallel(id, {branches, waitForAll}): the step is stored
BuildParallel(id, branches, waitForAll) ==
  /\ Building
  /\ built' = Called([k |-> "parallel", id |-> id, refs |-> branches], TRUE)
  /\ def' = Put(def, id, ParallelStep(branches, waitForAll, NoNext))
  /\ declared' = Declared(id)
  /\ UNCHANGED <<scn, entry, tasks, hooks, orch, heap, ctxs, frames, calls, run>>

\* condition(id, {condition, trueNext, falseNext}): the step is stored
BuildCondition(id, cond, trueNext, falseNext) ==
  /\ Building
  /\ built' = Called([k |-> "condition", id |-> id,
                      refs |-> <<trueNext, falseNext>>], TRUE)
  /\ def' = Put(def, id, ConditionStep(cond, trueNext, falseNext, NoNext))
  /\ declared' = Declared(id)
  /\ UNCHANGED <<scn, entry, tasks, hooks, orch, heap, ctxs, frames, calls, run>>

\* the loop of sequence(ids) from position i: each id and its follower are
\* looked up, and the first that is missing ends the loop with an error;
\* the links made before stay
RECURSIVE Linked(_, _, _)
Linked(d, ids, i) ==
  IF i >= Len(ids) THEN [ok |-> TRUE, def |-> d]
  ELSE IF ids[i] \notin DOMAIN d \/ ids[i + 1] \notin DOMAIN d
  THEN [ok |-> FALSE, def |-> d]
  ELSE Linked([d EXCEPT ![ids[i]].next = NextOne(ids[i + 1])], ids, i + 1)

\* sequence(ids): nothing for no ids; else the steps are linked, and ids[0]
\* becomes the entry point if there is none
BuildSequence(ids) ==
  /\ Building
  /\ LET linked == Linked(def, ids, 1)
     IN /\ built' = Called([k |-> "sequence", refs |-> ids], linked.ok)
        /\ def' = linked.def
        /\ entry' = IF ids # <<>> /\ linked.ok /\ entry = "" THEN ids[1]
                    ELSE entry
  /\ UNCHANGED <<scn, declared, tasks, hooks, orch, heap, ctxs, frames, calls, run>>

\* getDefinition().steps[id] = step: the builder has no call for a Map or
\* a Retry step, they are put into the definition it hands out
DefineStep(id, step) ==
  /\ Building
  /\ built' = Called([k |-> "define", id |-> id], TRUE)
  /\ def' = Put(def, id, step)
  /\ declared' = Declared(id)
  /\ UNCHANGED <<scn, entry, tasks, hooks, orch, heap, ctxs, frames, calls, run>>

\* app.workflow("built"): no steps and no entry point
InitBuild ==
  /\ scn = "built"
  /\ def = <<>>
  /\ entry = ""
  /\ declared = <<>>
  /\ built = NotBuilt
  /\ tasks = Registry
  /\ hooks = NoHooks
  /\ heap = <<>>
  /\ ctxs = <<>>
  /\ frames = <<>>
  /\ calls = <<>>
  /\ run = [pc |-> "idle", input |-> EmptyObj, ret |-> Undefined,
            completed |-> 0, errored |-> 0,
              on |-> NoHandlers, ranCompleted |-> 0, ranError |-> 0]
  /\ OrchestratorIdle

\* the calls that are made on the builder: steps a, b (tasks), p (parallel),
\* c (condition), m (map) and r (retry); no step is ever called ghost
NextBuild ==
  \/ BuildTask("a", PlainTask("okA", NoNext))
  \/ BuildTask("b", TaskStep("shaky", MapOf(<<<<"x", SrcFn(<<"steps", "a", "a">>)>>>>),
                             NoMap, CondConst(TRUE), 1, 10, NoNext))
  \/ BuildParallel("p", <<"a", "ghost">>, TRUE)
  \/ \E b \in BOOLEAN : BuildCondition("c", CondConst(b), "ghost", "a")
  \/ \E ids \in {<<"p">>, <<"a", "b">>, <<"a", "ghost">>, <<"a", "c">>,
                  <<"m">>, <<"r">>} : BuildSequence(ids)
  \/ DefineStep("m", MapStep([k |-> "lit", v |-> Arr(<<Num(1), Num(2)>>)],
                             "ghost", Some(2), NoNext))
  \/ DefineStep("r", RetryStep("ghost", 1, Some(1000), Some(2), CondConst(TRUE), NoNext))
  \/ Next

SpecBuild == InitBuild /\ [][NextBuild]_wfvars

(***************************************************************************)
(* Runs with hooks added for the events of a step.                         *)
(***************************************************************************)
InitHooks ==
  \E w \in HookedWorkflows :
    /\ scn = w.name
    /\ def = w.def
    /\ entry = w.entry
    /\ declared = OneOrder(DOMAIN w.def)
    /\ built = NotBuilt
    /\ tasks = w.tasks
    /\ hooks \in HookSets
    /\ heap = <<>>
    /\ ctxs = <<>>
    /\ frames = <<>>
    /\ calls = <<>>
    /\ run = [pc |-> "idle", input |-> w.input, ret |-> Undefined,
              completed |-> 0, errored |-> 0,
              on |-> NoHandlers, ranCompleted |-> 0, ranError |-> 0]
    /\ OrchestratorIdle

\* the steps of a run of Task steps with hooks
NextHooks ==
  \/ ExecuteStart
  \/ ExecuteWorkflow
  \/ ExecuteSettled
  \/ ExecuteReturn
  \/ ExecuteRaise
  \/ \E f \in DOMAIN frames : HookReturned(f)
  \/ \E f \in DOMAIN frames : HookStartDone(f)
  \/ \E f \in DOMAIN frames : StoreResult(f)
  \/ \E f \in DOMAIN frames : FollowNext(f)
  \/ \E f \in DOMAIN frames : NextSettled(f)
  \/ \E f \in DOMAIN frames : CatchError(f)
  \/ \E f \in DOMAIN frames : RetryOrRaise(f)
  \/ \E f \in DOMAIN frames : RetrySettled(f)
  \/ \E f \in DOMAIN frames : TaskBegin(f)
  \/ \E f \in DOMAIN frames : TaskWorkDone(f)

SpecHooks == InitHooks /\ [][NextHooks]_wfvars

(***************************************************************************)
(* Runs of the workflows of a set, one for each group of claims.           *)
(***************************************************************************)
InitWith(ws, hs) ==
  \E w \in ws, h \in hs :
    /\ scn = w.name
    /\ def = w.def
    /\ entry = w.entry
    /\ declared = OneOrder(DOMAIN w.def)
    /\ built = NotBuilt
    /\ tasks = w.tasks
    /\ hooks = NoHooks
    /\ heap = <<>>
    /\ ctxs = <<>>
    /\ frames = <<>>
    /\ calls = <<>>
    /\ run = [pc |-> "idle", input |-> w.input, ret |-> Undefined,
              completed |-> 0, errored |-> 0,
              on |-> h, ranCompleted |-> 0, ranError |-> 0]
    /\ OrchestratorIdle

InitOn(ws) == InitWith(ws, {NoHandlers})

\* the sources of an input mapping: paths below steps (there, missing, and
\* through a number), plain keys of the input (one named as a step, one as
\* the output of the context, one with a dot in it) and functions
Sources ==
  {SrcStr(<<"steps", "pre", "k">>), SrcStr(<<"steps", "pre", "a", "b">>),
   SrcStr(<<"steps", "none", "x">>), SrcStr(<<"steps", "pre", "k", "z">>),
   SrcStr(<<"q">>), SrcStr(<<"pre">>), SrcStr(<<"output">>),
   SrcStr(<<"a", "b">>), SrcStr(<<"steps">>),
   SrcFn(<<"input", "q">>), SrcFn(<<"steps", "pre", "k">>)}

InputMaps ==
  {NoMap, MapOf(<<>>)} \cup {MapOf(<<<<"x", src>>>>) : src \in Sources}
  \cup {MapOf(<<<<"x", SrcFn(<<"input", "q">>)>>, <<"y", SrcStr(<<"q">>)>>>>)}

RunInputs ==
  {EmptyObj, Null,
   Obj(("q" :> Num(1)) @@ ("pre" :> Num(5)) @@ ("output" :> Num(6))
       @@ ("a.b" :> Num(7)) @@ ("a" :> Obj("b" :> Num(8)))
       @@ ("steps" :> Num(9)))}

\* a Task step with an input mapping, run after a step that has stored a
\* result and, as the iterator of a Map step, on the items
InputWorkflows ==
  {Workflow("inputs",
            ("pre" :> PlainTask("tree", NextOne("use")))
            @@ ("use" :> TaskStep("echo", im, NoMap, NoCond, 0, 0, NoNext)),
            "pre", Registry, input)
     : im \in InputMaps, input \in RunInputs}
  \cup
  {Workflow("inputsMap",
            ("m" :> MapStep([k |-> "lit", v |-> Arr(<<Obj("q" :> Num(4)), item>>)],
                            "use", Some(1), NoNext))
            @@ ("use" :> TaskStep("echo", im, NoMap, NoCond, 0, 0, NoNext)),
            "m", Registry, Obj("q" :> Num(1)))
     : im \in {NoMap, MapOf(<<<<"x", SrcStr(<<"q">>)>>>>)},
       item \in {Num(3), Null}}

InitInput == InitOn(InputWorkflows)

NextInput ==
  \/ ExecuteStart
  \/ ExecuteWorkflow
  \/ ExecuteSettled
  \/ ExecuteReturn
  \/ ExecuteRaise
  \/ \E f \in DOMAIN frames : HookStartDone(f)
  \/ \E f \in DOMAIN frames : StoreResult(f)
  \/ \E f \in DOMAIN frames : FollowNext(f)
  \/ \E f \in DOMAIN frames : NextSettled(f)
  \/ \E f \in DOMAIN frames : CatchError(f)
  \/ \E f \in DOMAIN frames : RetryOrRaise(f)
  \/ \E f \in DOMAIN frames : TaskBegin(f)
  \/ \E f \in DOMAIN frames : InputMapResume(f)
  \/ \E f \in DOMAIN frames : TaskWorkDone(f)
  \/ \E f \in DOMAIN frames : MapBegin(f)
  \/ \E f \in DOMAIN frames : MapBatchSettled(f)

SpecInput == InitInput /\ [][NextInput]_wfvars

\* a Task step with a retry budget whose successors are a list of two
\* Task steps
FanWorkflows ==
  {Workflow("fan",
            ("s" :> TaskStep("okA", NoMap, NoMap, NoCond, r, 0,
                             NextList(<<"b1", "b2">>)))
            @@ ("b1" :> PlainTask(tn, NoNext))
            @@ ("b2" :> PlainTask("fetch", NoNext)),
            "s", Registry, EmptyObj)
     : r \in 0..1, tn \in {"okB", "shaky", "boom"}}

InitFan == InitOn(FanWorkflows)

NextFan ==
  \/ ExecuteStart
  \/ ExecuteWorkflow
  \/ ExecuteSettled
  \/ ExecuteReturn
  \/ ExecuteRaise
  \/ \E f \in DOMAIN frames : HookStartDone(f)
  \/ \E f \in DOMAIN frames : StoreResult(f)
  \/ \E f \in DOMAIN frames : FollowNext(f)
  \/ \E f \in DOMAIN frames : NextSettled(f)
  \/ \E f \in DOMAIN frames : CatchError(f)
  \/ \E f \in DOMAIN frames : RetryOrRaise(f)
  \/ \E f \in DOMAIN frames : RetrySettled(f)
  \/ \E f \in DOMAIN frames : TaskBegin(f)
  \/ \E f \in DOMAIN frames : TaskWorkDone(f)

SpecFan == InitFan /\ [][NextFan]_wfvars

\* the output targets of two branches: different keys, or different leaves
\* below a shared dotted prefix
TargetPairs ==
  {<<<<"x">>, <<"y">>>>, <<<<"o", "x">>, <<"o", "y">>>>,
   <<<<"o", "p", "x">>, <<"o", "q">>>>, <<<<"o", "p", "x">>, <<"o", "p", "y">>>>,
   <<<<"o", "x">>, <<"z">>>>}

\* a Parallel step that waits for its two branches, which succeed, write to
\* different targets and do not read the result of each other; the first
\* may have a function in its input mapping, the second may merge its
\* whole result
OutputWorkflows ==
  {Workflow("parOut",
            ("p" :> ParallelStep(<<"w1", "w2">>, TRUE, NoNext))
            @@ ("w1" :> TaskStep("okA", im, MapOf(<<<<"a", t[1]>>>>), NoCond, 0, 0,
                                 NoNext))
            @@ ("w2" :> TaskStep("okB", NoMap, om, NoCond, 0, 0, NoNext)),
            "p", Registry, Obj("q" :> Num(1)))
     : t \in TargetPairs,
       im \in {NoMap, MapOf(<<<<"x", SrcFn(<<"input", "q">>)>>>>)},
       om \in {NoMap} \cup {MapOf(<<<<"b", u[2]>>>>) : u \in TargetPairs}}

InitPar == InitOn(OutputWorkflows)

NextPar ==
  \/ ExecuteStart
  \/ ExecuteWorkflow
  \/ ExecuteSettled
  \/ ExecuteReturn
  \/ \E f \in DOMAIN frames : HookStartDone(f)
  \/ \E f \in DOMAIN frames : StoreResult(f)
  \/ \E f \in DOMAIN frames : FollowNext(f)
  \/ \E f \in DOMAIN frames : TaskBegin(f)
  \/ \E f \in DOMAIN frames : InputMapResume(f)
  \/ \E f \in DOMAIN frames : TaskWorkDone(f)
  \/ \E f \in DOMAIN frames : ParallelBegin(f)
  \/ \E f \in DOMAIN frames : ParallelSettled(f)

SpecPar == InitPar /\ [][NextPar]_wfvars

\* runs that must settle: a Task step with every retry budget, a Retry step
\* with every maxRetries over a failing step, and a Map step over no item
\* or more with every concurrency from 0 (and without one)
LiveWorkflows ==
  {Workflow("liveTask",
            ("t" :> TaskStep(tn, NoMap, NoMap, NoCond, r, d, NoNext)),
            "t", Registry, EmptyObj)
     : tn \in {"okA", "boom", "shaky"}, r \in 0..MaxRetries, d \in {0, 10}}
  \cup
  {Workflow("liveRetry",
            ("rs" :> RetryStep("t", m, Some(1000), Some(2), c, NoNext))
            @@ ("t" :> PlainTask(tn, NoNext)),
            "rs", Registry, EmptyObj)
     : tn \in {"boom", "shaky"}, m \in 0..MaxRetries,
       c \in {NoCond, CondConst(TRUE), CondConst(FALSE)}}
  \cup
  {Workflow("liveMap",
            ("m" :> MapStep([k |-> "lit", v |-> Arr(ItemsOf(n))], "it", c, NoNext))
            @@ ("it" :> PlainTask("echo", NoNext)),
            "m", Registry, EmptyObj)
     : n \in 0..MaxConc, c \in {Absent} \cup {Some(k) : k \in 0..MaxConc}}

InitLive == InitOn(LiveWorkflows)

NextLive ==
  \/ ExecuteStart
  \/ ExecuteWorkflow
  \/ ExecuteSettled
  \/ ExecuteReturn
  \/ ExecuteRaise
  \/ \E f \in DOMAIN frames : HookStartDone(f)
  \/ \E f \in DOMAIN frames : StoreResult(f)
  \/ \E f \in DOMAIN frames : FollowNext(f)
  \/ \E f \in DOMAIN frames : CatchError(f)
  \/ \E f \in DOMAIN frames : RetryOrRaise(f)
  \/ \E f \in DOMAIN frames : RetryDelayDone(f)
  \/ \E f \in DOMAIN frames : RetrySettled(f)
  \/ \E f \in DOMAIN frames : TaskBegin(f)
  \/ \E f \in DOMAIN frames : TaskWorkDone(f)
  \/ \E f \in DOMAIN frames : MapBegin(f)
  \/ \E f \in DOMAIN frames : MapBatchSettled(f)
  \/ \E f \in DOMAIN frames : RetryBegin(f)
  \/ \E f \in DOMAIN frames : RetryAttemptSettled(f)
  \/ \E f \in DOMAIN frames : RetryPredicateDone(f)
  \/ \E f \in DOMAIN frames : RetryWaitDone(f)

\* every continuation that is ready is run by the event loop: a run that
\* can take a step does not stay where it is
SpecLive == InitLive /\ [][NextLive]_wfvars /\ WF_wfvars(NextLive)

\* bound on the number of handlers registered for one event
MaxHandlers == 2

\* the lists of handlers of one event
HandlerLists ==
  UNION {[1..n -> {"ok", "throw"}] : n \in 0..MaxHandlers}

\* one Task step whose unit of work succeeds or fails
HandlerWorkflows ==
  {Workflow("handlers", ("t" :> PlainTask(tn, NoNext)), "t", Registry, EmptyObj)
     : tn \in {"okA", "boom"}}

InitHandlers ==
  InitWith(HandlerWorkflows,
           {[onCompleted |-> c, onError |-> e] : c \in HandlerLists, e \in HandlerLists})

NextHandlers ==
  \/ ExecuteStart
  \/ ExecuteWorkflow
  \/ ExecuteSettled
  \/ ExecuteReturn
  \/ ExecuteRaise
  \/ \E f \in DOMAIN frames : HookStartDone(f)
  \/ \E f \in DOMAIN frames : StoreResult(f)
  \/ \E f \in DOMAIN frames : FollowNext(f)
  \/ \E f \in DOMAIN frames : CatchError(f)
  \/ \E f \in DOMAIN frames : RetryOrRaise(f)
  \/ \E f \in DOMAIN frames : TaskBegin(f)
  \/ \E f \in DOMAIN frames : TaskWorkDone(f)

SpecHandlers == InitHandlers /\ [][NextHandlers]_wfvars

(***************************************************************************)
(* Repeated runs: execute(input) is called again on the stored workflow    *)
(* once the previous call has returned or raised.                          *)
(***************************************************************************)
\* bound on the number of calls of execute on one workflow
MaxRuns == 2

\* the next call of execute(input): nothing of the previous run is kept but
\* the stored definition (the context, and all that hangs from it, is made
\* anew by every call)
ExecuteAgain ==
  /\ run.pc \in {"returned", "raised"}
  /\ run.completed + run.errored < MaxRuns
  /\ run' = [run EXCEPT !.pc = "idle", !.ret = Undefined,
                        !.ranCompleted = 0, !.ranError = 0]
  /\ heap' = <<>>
  /\ ctxs' = <<>>
  /\ frames' = <<>>
  /\ calls' = <<>>
  /\ UNCHANGED wfdef

\* the workflows of Task steps with retry budgets
InitAgain == Init /\ scn \in {"retry", "retryChain"}

\* the steps of the runs of a workflow that has Task steps only
NextAgain ==
  \/ ExecuteAgain
  \/ ExecuteStart
  \/ ExecuteWorkflow
  \/ ExecuteSettled
  \/ ExecuteReturn
  \/ ExecuteRaise
  \/ \E f \in DOMAIN frames : HookStartDone(f)
  \/ \E f \in DOMAIN frames : StoreResult(f)
  \/ \E f \in DOMAIN frames : FollowNext(f)
  \/ \E f \in DOMAIN frames : NextSettled(f)
  \/ \E f \in DOMAIN frames : CatchError(f)
  \/ \E f \in DOMAIN frames : RetryOrRaise(f)
  \/ \E f \in DOMAIN frames : RetryDelayDone(f)
  \/ \E f \in DOMAIN frames : RetrySettled(f)
  \/ \E f \in DOMAIN frames : TaskBegin(f)
  \/ \E f \in DOMAIN frames : TaskWorkDone(f)

SpecAgain == InitAgain /\ [][NextAgain]_wfvars

(***************************************************************************)
(* The specification of the orchestrator.                                  *)
(***************************************************************************)
vars == <<wfvars, orch>>

InitOrch ==
  /\ WorkflowIdle
  /\ \E s \in Setups : tdef = s[1] /\ options = s[2] /\ agents = s[3]
  /\ contexts = <<>>
  /\ invs = <<>>
  /\ dispatches = <<>>
  /\ now = 0

NextOrch ==
  \/ ExecuteTask
  \/ Tick
  \/ \E i \in DOMAIN invs : TaskAnalyzed(i)
  \/ \E i \in DOMAIN invs : TaskDecomposed(i)
  \/ \E i \in DOMAIN invs : AgentSelected(i)
  \/ \E i \in DOMAIN invs : AgentReturned(i)
  \/ \E i \in DOMAIN invs : ResultsAggregated(i)
  \/ \E i \in DOMAIN invs : ResultEvaluated(i)
  \/ \E i \in DOMAIN invs : RetryReturned(i)
  \/ \E i \in DOMAIN invs : EvaluationHandled(i)

SpecOrch == InitOrch /\ [][NextOrch]_vars

\* the tasks without required capabilities, with every attempt limit and
\* no criteria or one, on the registry of agents that succeed
LiveSetups ==
  {s \in TaskDefinitions \X Range(Options) \X {Registries[1]} :
     /\ ~s[1].requiredCapabilities.has
     /\ s[1].evaluationCriteria \in {Absent, Some(<<"quality">>)}}

InitOrchLive ==
  /\ WorkflowIdle
  /\ \E s \in LiveSetups : tdef = s[1] /\ options = s[2] /\ agents = s[3]
  /\ contexts = <<>>
  /\ invs = <<>>
  /\ dispatches = <<>>
  /\ now = 0

\* every continuation of executeTask that is ready is run by the event loop
SpecOrchLive == InitOrchLive /\ [][NextOrch]_vars /\ WF_vars(NextOrch)

(***************************************************************************)
(* Properties of a workflow run.                                           *)
(***************************************************************************)
\* the activation that a chain of Task-step retries started from
RECURSIVE RootOf(_)
RootOf(g) == IF frames[g].via = "retry" THEN RootOf(frames[g].par) ELSE g

\* the activations of the retry chain that starts at f
ChainOf(f) == {g \in DOMAIN frames : RootOf(g) = f}

\* the invocations of the unit of work made by the activations in F
CallsBy(F) == {i \in 1..Len(calls) : calls[i].fr \in F}

\* the unit of work invoked by activation g has failed
WorkFailed(g) ==
  \E i \in 1..Len(calls) :
    calls[i].fr = g /\ frames[g].err = Err(calls[i].task, i)

\* activation f has entered a Task step with the step's declared budget
EntersTask(f) ==
  /\ f \in DOMAIN frames
  /\ frames[f].step \in DOMAIN def
  /\ StepOf(f).type = "task"
  /\ frames[f].via = "call"
  /\ frames[f].bud[frames[f].step] = def[frames[f].step].retries

\* every activation of the chain of f has invoked the unit of work, unless
\* it is still on its way to it, and every invocation that has settled has
\* failed
AlwaysFailed(f) ==
  \A g \in ChainOf(f) :
    frames[g].pc \notin {"hookStart", "dispatch", "gate", "inputMap", "work"}
      => WorkFailed(g)

\* C1: a Task step with retry budget r whose unit of work fails on every
\* invocation is invoked at most r + 1 times by a traversal that enters it
\* with its declared budget, and the failure leaves the step only after
\* exactly r + 1 invocations
C1_RetriesThenPropagates ==
  \A f \in DOMAIN frames :
    (EntersTask(f) /\ AlwaysFailed(f)) =>
      LET r == def[frames[f].step].retries
          n == Cardinality(CallsBy(ChainOf(f)))
      IN /\ n <= r + 1
         /\ frames[f].st = "err" => n = r + 1
         /\ frames[f].st # "ok"

\* a step with budget 2 has failed after 3 invocations
C1_Witness ==
  \E f \in DOMAIN frames :
    /\ EntersTask(f) /\ AlwaysFailed(f)
    /\ def[frames[f].step].retries = 2
    /\ frames[f].st = "err"
    /\ Cardinality(CallsBy(ChainOf(f))) = 3

\* the steps that activation f can take
FrameStep(f) ==
  \/ StepNotFound(f) \/ HookStartDone(f) \/ StoreResult(f) \/ FollowNext(f)
  \/ NextSettled(f) \/ CatchError(f) \/ RetryOrRaise(f) \/ RetryDelayDone(f)
  \/ RetrySettled(f) \/ TaskBegin(f) \/ GateDone(f) \/ InputMapResume(f)
  \/ TaskWorkDone(f) \/ ParallelBegin(f) \/ ParallelSettled(f)
  \/ ConditionBegin(f) \/ ConditionBranch(f) \/ ConditionSettled(f)
  \/ MapBegin(f) \/ MapBatchSettled(f) \/ RetryBegin(f)
  \/ RetryAttemptSettled(f) \/ RetryPredicateDone(f) \/ RetryWaitDone(f)

\* activation p runs a Parallel step with waitForAll = true and has started
\* its branches
ParallelAll(p) ==
  /\ frames[p].step \in DOMAIN def
  /\ StepOf(p).type = "parallel"
  /\ StepOf(p).waitForAll
  /\ frames[p].pc \notin {"hookStart", "dispatch"}

\* the activations of the branches of the Parallel step run by p
BranchesOf(p) ==
  {k \in DOMAIN frames :
     frames[k].par = p /\ frames[k].step \in Range(StepOf(p).branches)}

\* activation k runs a Task step without successor whose unit of work
\* always succeeds
SureLeaf(k) ==
  /\ frames[k].step \in DOMAIN def
  /\ StepOf(k).type = "task"
  /\ ~HasSuccessor(StepOf(k))
  /\ StepOf(k).taskName \in DOMAIN tasks
  /\ tasks[StepOf(k).taskName].k = "const"
  /\ StepOf(k).condition.k = "none"

\* C2: when a branch of a Parallel step with waitForAll = true has failed,
\* the Parallel step does not succeed and ends failed; a sibling branch is
\* not cancelled (it is never rejected and can go on), and once its unit of
\* work has succeeded its result is at context.steps under its id
C2_ParallelFailsSiblingRecorded ==
  \A p \in DOMAIN frames :
    (ParallelAll(p) /\ \E b \in BranchesOf(p) : frames[b].st = "err") =>
      /\ frames[p].st # "ok"
      /\ frames[p].pc \in {"awaitBranches", "catch", "hookError", "done"}
      /\ frames[p].res = Undefined
      /\ \A a \in BranchesOf(p) :
           SureLeaf(a) =>
             /\ frames[a].st # "err"
             /\ frames[a].st = "run" => ENABLED FrameStep(a)
             /\ frames[a].pc \in {"hookEnd", "done"} =>
                  /\ Deep(heap, frames[a].res) = tasks[StepOf(a).taskName].v
                  /\ GetKey(heap, Obj(ctxs[frames[a].cx].steps), frames[a].step)
                       = frames[a].res

\* the run has already raised the failure of b to the caller, and a, still
\* running, has just stored its result
C2_Witness ==
  /\ run.pc = "raised"
  /\ \E p \in DOMAIN frames :
       /\ ParallelAll(p)
       /\ frames[p].st = "err"
       /\ \E a, b \in BranchesOf(p) :
            /\ frames[b].st = "err"
            /\ SureLeaf(a)
            /\ frames[a].pc = "hookEnd"
            /\ "a" \in DOMAIN ctxs[1].steps
            /\ ctxs[1].steps["a"] = frames[a].res

\* the run has returned from a start step that declares no successor
ReturnedFromLeafStart ==
  /\ run.pc = "returned"
  /\ entry \in DOMAIN def
  /\ ~HasSuccessor(def[entry])

\* the ids of the steps whose result an activation has stored on the run's
\* context
StoredOnRun ==
  {frames[g].step : g \in {h \in DOMAIN frames :
      frames[h].cx = 1 /\ frames[h].res # Undefined /\ frames[h].pc # "store"}}

\* C3 as stated: starting at a step without successor, of any type, returns
\* that step's result and leaves in context.steps the entry of that step only
C3_Original ==
  ReturnedFromLeafStart =>
    /\ run.ret = GetKey(heap, Obj(ctxs[1].steps), entry)
    /\ DOMAIN ctxs[1].steps = {entry}

\* C3 amended: starting at a step without successor returns that step's
\* result, which context.steps holds under the step's id; context.steps
\* holds no other entry when the step is a Task or a Map step, while after a
\* Parallel, Condition or Retry step it holds as well the entry of every
\* step that this step has run up to the storing of its result (at least
\* one after a Condition or a Retry step)
C3_LeafStart ==
  ReturnedFromLeafStart =>
    /\ entry \in DOMAIN ctxs[1].steps
    /\ run.ret = ctxs[1].steps[entry]
    /\ DOMAIN ctxs[1].steps = StoredOnRun
    /\ def[entry].type \in {"task", "map"} => DOMAIN ctxs[1].steps = {entry}
    /\ def[entry].type \in {"condition", "retry"} =>
         DOMAIN ctxs[1].steps # {entry}

\* a Condition start step has returned the result of its branch, and
\* context.steps holds the entry of the branch next to its own
C3_Witness ==
  /\ ReturnedFromLeafStart
  /\ def[entry].type = "condition"
  /\ DOMAIN ctxs[1].steps = {entry, "a"}
  /\ run.ret = ctxs[1].steps[entry]
  /\ Deep(heap, run.ret) = Obj("a" :> Num(1))

\* the workflow fetch -> format in which format maps the key of its result
\* to the output key total
FetchFormat ==
  /\ scn = "sequence"
  /\ def["format"].outputMap.m[1][1] = tasks[def["format"].taskName].key

\* C4 as stated: the run of fetch -> format ends with context.output equal
\* to exactly {total: 7}
C4_Original ==
  (FetchFormat /\ run.pc = "returned") =>
    Deep(heap, ctxs[1].output) = Obj("total" :> Num(7))

\* the activation has passed the gating predicate of its Task step, which
\* answered false
Skipped(f) ==
  /\ frames[f].step \in DOMAIN def
  /\ StepOf(f).type = "task"
  /\ StepOf(f).taskName \in DOMAIN tasks
  /\ StepOf(f).condition.k \in {"const", "truthy"}
  /\ frames[f].pc \notin {"notfound", "hookStart", "dispatch", "gate"}
  /\ ~frames[f].b

\* what holds of an activation that has skipped its unit of work
SkippedState(f) ==
  LET fr == frames[f]
      step == StepOf(f)
  IN /\ \A i \in 1..Len(calls) : calls[i].fr # f
     /\ fr.res = Null
     /\ fr.pc # "store" =>
          /\ fr.step \in DOMAIN ctxs[fr.cx].steps
          /\ ctxs[fr.cx].steps[fr.step] = Null
     /\ fr.pc = "hookEnd" => ENABLED FollowNext(f)
     /\ (fr.pc = "awaitNext" \/ (fr.pc = "done" /\ HasSuccessor(step))) =>
          /\ [i \in 1..Len(fr.kids) |-> frames[fr.kids[i]].step] = Successors(step)
          /\ \A i \in 1..Len(fr.kids) :
               frames[fr.kids[i]].cx = fr.cx /\ frames[fr.kids[i]].par = f
          /\ fr.jmode = IF step.next.k = "list" THEN "all" ELSE "one"
     /\ (fr.pc = "done" /\ ~HasSuccessor(step)) => (fr.st = "ok" /\ fr.v = Null)

\* a step of activation f from the answer false of the gating predicate on
\* leaves context.output as it is
SkippedWrites(f) ==
  LET cx == frames[f].cx
  IN ((Skipped(f) \/ (At(f, "gate") /\ ~frames[f].b))
      /\ frames'[f].pc # frames[f].pc) =>
       /\ ctxs'[cx].output = ctxs[cx].output
       /\ Deep(heap', ctxs'[cx].output) = Deep(heap, ctxs[cx].output)

\* C5: when the gating predicate of a Task step answers false, the unit of
\* work is not invoked, the step does not change context.output, its stored
\* result context.steps[stepId] is null, and the traversal goes on to the
\* declared successor (one id or a list) as after a completion, or returns
\* null when there is none
C5_GateFalseSkips ==
  /\ [](\A f \in DOMAIN frames : Skipped(f) => SkippedState(f))
  /\ [][\A f \in DOMAIN frames : SkippedWrites(f)]_wfvars

\* a run has returned the result of the successor of a skipped step
C5_Witness ==
  /\ run.pc = "returned"
  /\ \E f \in DOMAIN frames :
       /\ Skipped(f)
       /\ frames[f].step = "g"
       /\ frames[f].st = "ok"
       /\ def["g"].next = NextOne("n")
       /\ ctxs[1].steps["g"] = Null
       /\ "n" \in DOMAIN ctxs[1].steps
       /\ Deep(heap, run.ret) = Obj("b" :> Num(2))

\* activation f runs a Map step and has its result
MapDone(f) ==
  /\ frames[f].step \in DOMAIN def
  /\ StepOf(f).type = "map"
  /\ frames[f].res # Undefined

\* the activations of the iterator that the Map step of f has run on item i
IteratorRuns(f, i) ==
  {k \in DOMAIN frames :
     /\ frames[k].par = f
     /\ frames[k].step = StepOf(f).iteratorTask
     /\ ctxs[frames[k].cx].input = frames[f].items[i]}

\* C6: the result of a Map step has one element for each item, and its
\* element i is the result of the run of the iterator on item i
C6_MapResultInItemOrder ==
  \A f \in DOMAIN frames :
    MapDone(f) =>
      LET result == heap[frames[f].res.r].a
          items == frames[f].items
      IN /\ Len(result) = Len(items)
         /\ \A i \in 1..Len(items) :
              /\ IteratorRuns(f, i) # {}
              /\ \A k \in IteratorRuns(f, i) :
                   frames[k].st = "ok" /\ result[i] = frames[k].v
         /\ tasks[def[StepOf(f).iteratorTask].taskName] = Wraps("out", <<>>) =>
              Deep(heap, frames[f].res) =
                Arr([i \in 1..Len(items) |-> Obj("out" :> items[i])])

\* a Map step over 5 items in batches of 2 has its result, and the iterator
\* was invoked on the second item before it was on the first
C6_Witness ==
  \E f \in DOMAIN frames :
    /\ MapDone(f)
    /\ Len(frames[f].items) = 5
    /\ Concurrency(StepOf(f)) = 2
    /\ calls[1].input = frames[f].items[2]
    /\ calls[2].input = frames[f].items[1]

\* object o with the leaf at the dotted path set to value: the objects on the
\* path are kept with all their other keys, and an empty object is taken
\* where the path meets no object
RECURSIVE PutPath(_, _, _)
PutPath(o, path, value) ==
  IF Len(path) = 1 THEN Obj(Put(o.o, path[1], value))
  ELSE LET cur == IF path[1] \in DOMAIN o.o THEN o.o[path[1]] ELSE Undefined
           sub == IF cur.t = "obj" THEN cur ELSE EmptyObj
       IN Obj(Put(o.o, path[1], PutPath(sub, Tail(path), value)))

\* every value that object o holds on the path above the leaf is an object,
\* or is missing or falsy
RECURSIVE Walkable(_, _)
Walkable(o, path) ==
  \/ Len(path) = 1
  \/ LET cur == IF path[1] \in DOMAIN o.o THEN o.o[path[1]] ELSE Undefined
     IN IF cur.t = "obj" THEN Walkable(cur, Tail(path)) ELSE ~Truthy(cur)

\* the unit of work of activation f, whose step maps one key of the result
\* to a dotted path, succeeds in this step
DottedWrite(f) ==
  /\ At(f, "work")
  /\ StepOf(f).outputMap.has
  /\ Len(StepOf(f).outputMap.m) = 1
  /\ Len(StepOf(f).outputMap.m[1][2]) > 1
  /\ frames'[f].pc # "work"
  /\ frames'[f].err \in {Undefined, Err("TypeError", CallOf(f))}

\* context.output of activation f after the step is context.output before
\* it with the value of the mapped key of the result at the dotted path
WrittenAtPath(f) ==
  LET out == ctxs[frames[f].cx].output
      entry1 == StepOf(f).outputMap.m[1]
      value == Deep(heap', GetKey(heap', frames'[f].res, entry1[1]))
  IN /\ frames'[f].pc = "store"
     /\ ctxs'[frames[f].cx].output = out
     /\ Deep(heap', out) = PutPath(Deep(heap, out), entry1[2], value)

\* C7 as stated: an output mapping to a dotted path creates the missing
\* intermediate objects, sets the leaf and leaves every other key of
\* context.output as it is
C7_Original ==
  [][\A f \in DOMAIN frames : DottedWrite(f) => WrittenAtPath(f)]_wfvars

\* C7 amended: the same, provided every value that context.output holds on
\* the path above the leaf is an object, or is missing or falsy (it is then
\* replaced by a new object); when one of them is another value the
\* assignment raises an error and context.output stays as it is
C7_DottedPathKeepsSiblings ==
  [][\A f \in DOMAIN frames :
       DottedWrite(f) =>
         LET out == ctxs[frames[f].cx].output
         IN IF Walkable(Deep(heap, out), StepOf(f).outputMap.m[1][2])
            THEN WrittenAtPath(f)
            ELSE /\ frames'[f].pc = "catch"
                 /\ Deep(heap', out) = Deep(heap, out)]_wfvars

\* the mapping to a.b.c has been applied to a context.output that held
\* a.b.d: both keys are under a.b
C7_Witness ==
  \E f \in DOMAIN frames :
    /\ frames[f].step = "s2"
    /\ frames[f].pc = "store"
    /\ def["s2"].outputMap.m[1][2] = <<"a", "b", "c">>
    /\ def["s1"].outputMap.has
    /\ Deep(heap, ctxs[1].output) =
         Obj("a" :> Obj("b" :> Obj(("d" :> Num(1)) @@ ("c" :> Num(5)))))

\* the number of steps of the chain that is run
ChainLen == Cardinality(DOMAIN def)

\* C11: in a linear chain t1 -> ... -> tn in which no step fails, whatever
\* the order in which the steps were declared, the steps are entered and
\* their units of work invoked in graph order, each once; step i + 1 is
\* entered only after the result of step i is stored in context.steps; and
\* the run returns the result of tn.
C11_ChainInGraphOrder ==
  scn = "chain" =>
    /\ Len(frames) <= ChainLen
    /\ Len(calls) <= Len(frames)
    /\ \A i \in DOMAIN frames : frames[i].step = ChainIds[i]
    /\ \A i \in DOMAIN calls :
         calls[i].fr = i /\ calls[i].task = def[ChainIds[i]].taskName
    /\ \A i \in DOMAIN frames :
         i > 1 => /\ ChainIds[i - 1] \in DOMAIN ctxs[1].steps
                  /\ ctxs[1].steps[ChainIds[i - 1]] = frames[i - 1].res
                  /\ frames[i - 1].res # Undefined
    /\ run.pc = "returned" =>
         /\ Len(frames) = ChainLen
         /\ Len(calls) = ChainLen
         /\ run.ret = frames[ChainLen].res
         /\ run.ret = ctxs[1].steps[ChainIds[ChainLen]]
         /\ Deep(heap, frames[ChainLen].res)
              = tasks[def[ChainIds[ChainLen]].taskName].v

\* a chain of three steps declared in the order t3, t1, t2 has been run
C11_Witness ==
  /\ scn = "chain"
  /\ declared = <<"t3", "t1", "t2">>
  /\ run.pc = "returned"
  /\ [i \in 1..Len(calls) |-> calls[i].task] = <<"okA", "fetch", "okB">>

\* activation p runs a Parallel step with waitForAll = false and has
\* started its branches
ParallelRace(p) ==
  /\ frames[p].step \in DOMAIN def
  /\ StepOf(p).type = "parallel"
  /\ ~StepOf(p).waitForAll
  /\ frames[p].pc \notin {"hookStart", "dispatch"}

\* the branches of p that have settled
SettledOf(p) == {k \in BranchesOf(p) : frames[k].st # "run"}

\* while p awaits the race of its branches, the race is pending until a
\* branch has settled and has then the outcome of a settled branch; the
\* branches that have not settled can take their steps, whatever p does
RaceOutcome(p) ==
  /\ frames[p].pc = "awaitBranches" =>
       /\ SettledOf(p) = {} <=> frames[p].join.st = "pending"
       /\ frames[p].join.st # "pending" =>
            \E k \in SettledOf(p) :
              frames[p].join = Settled(frames[k].st, frames[k].v)
  /\ SettledOf(p) = {} => frames[p].pc = "awaitBranches"
  /\ \A k \in BranchesOf(p) : frames[k].st = "run" => ENABLED FrameStep(k)

\* a step in which p leaves the race: the Parallel step has the result of
\* the race, or raises its error
RaceLeft(p) ==
  (frames[p].pc = "awaitBranches" /\ frames'[p].pc # "awaitBranches") =>
    IF frames[p].join.st = "ok"
    THEN /\ frames'[p].pc = "store"
         /\ frames'[p].res = frames[p].join.v
    ELSE /\ frames'[p].pc = "catch"
         /\ frames'[p].err = frames[p].join.v
         /\ frames'[p].res = Undefined

\* a step in which a branch of p settles: the first settlement decides the
\* race, a later one leaves its outcome as it is
RaceStep(p) ==
  \A k \in BranchesOf(p) :
    (frames[k].st = "run" /\ frames'[k].st # "run") =>
      IF SettledOf(p) = {}
      THEN frames'[p].join = Settled(frames'[k].st, frames'[k].v)
      ELSE /\ frames'[p].join = frames[p].join
           /\ frames'[p].res = frames[p].res
           /\ frames'[p].err = frames[p].err

\* C12: a Parallel step with waitForAll = false settles with the outcome of
\* the branch that settles first, success or failure, whatever the later
\* outcomes of the other branches, which are not cancelled and keep running.
C12_RaceFirstSettled ==
  /\ [](\A p \in DOMAIN frames : ParallelRace(p) => RaceOutcome(p))
  /\ [][\A p \in DOMAIN frames :
         ParallelRace(p) => RaceStep(p) /\ RaceLeft(p)]_wfvars

\* the race was lost by a: b failed first and the Parallel step failed with
\* the error of b, and a has then completed successfully
C12_Witness ==
  \E p \in DOMAIN frames :
    /\ ParallelRace(p)
    /\ frames[p].st = "err"
    /\ \E a, b \in BranchesOf(p) :
         /\ frames[b].st = "err"
         /\ frames[p].v = frames[b].v
         /\ frames[a].st = "ok"
         /\ "a" \in DOMAIN ctxs[1].steps

(***************************************************************************)
(* Properties of the orchestrator.                                         *)
(***************************************************************************)
\* activation i of executeTask has decomposed its task
Decomposed(i) == invs[i].pc # "analyze"

\* the number of activations of executeTask in the chain of retries up to i
Depth(i) ==
  LET up[j \in 0..Len(invs)] == IF j = 0 THEN 0 ELSE 1 + up[invs[j].par]
  IN up[i]

\* activation i has got the evaluation of its aggregate
Evaluated(i) == invs[i].evaluation.has

\* C8: under AUTO a task with n > 1 required capabilities is decomposed
\* into n subtasks, in the order of the capabilities, the j-th requiring
\* capability j only and having the goal and the expected output of the
\* task; a task with at most one required capability (or none declared) is
\* decomposed into the one subtask that is the task itself.
C8_DecomposedByCapability ==
  \A i \in DOMAIN invs :
    Decomposed(i) =>
      LET td == invs[i].task
          caps == td.requiredCapabilities
          subtasks == invs[i].subtasks
      IN IF caps.has /\ Len(caps.x) > 1
         THEN /\ Len(subtasks) = Len(caps.x)
              /\ \A j \in 1..Len(subtasks) :
                   /\ subtasks[j].requiredCapabilities = Some(<<caps.x[j]>>)
                   /\ subtasks[j].goal = td.goal
                   /\ subtasks[j].expectedOutput = td.expectedOutput
         ELSE subtasks = <<td>>

\* a task with three capabilities has been run through its three subtasks,
\* and a task with one capability through itself
C8_Witness ==
  /\ invs # <<>>
  /\ invs[1].st = "ok"
  /\ invs[1].task.requiredCapabilities.has
  /\ Len(invs[1].task.requiredCapabilities.x) = 3
  /\ Len(invs[1].subtaskResults) = 3
  /\ [d \in 1..Len(dispatches) |-> dispatches[d].task.requiredCapabilities.x]
       = <<<<"research">>, <<"summarize">>, <<"visualize">>>>

\* C9 (as stated): when the task declares no evaluation criteria (absent,
\* or a mapping without entries) the evaluation is passed with score 1.0
\* and executeTask returns the aggregate after this one attempt.
C9_Original ==
  \A i \in DOMAIN invs :
    (/\ Evaluated(i)
     /\ \/ ~invs[i].task.evaluationCriteria.has
        \/ invs[i].task.evaluationCriteria.x = <<>>)
    => /\ invs[i].evaluation.x.passed
       /\ invs[i].evaluation.x.score = One
       /\ invs[i].child = 0
       /\ invs[i].st = "ok" => invs[i].v = invs[i].aggregatedResult

\* C10 (as stated): executeTask with the maximum attempt count N >= 1 makes
\* at most N attempts: no chain of retries is longer than N activations.
C10_Original ==
  \A i \in DOMAIN invs :
    AttemptLimit(invs[i].task) >= 1 => Depth(i) <= AttemptLimit(invs[i].task)

\* the registration number of the agent of a name
RegisteredAs(name) == CHOOSE a \in DOMAIN agents : agents[a].name = name

\* the place of an agent in Object.values(app.agents)
PlaceOf(a) == CHOOSE r \in DOMAIN ObjectValues(agents) : ObjectValues(agents)[r] = a

\* the invocation has ended on a subtask no agent could take
NoAgentFound(i) ==
  /\ invs[i].pc = "done"
  /\ invs[i].st = "err"
  /\ invs[i].v = Err("No agent found", 0)

\* C13 (what the code does): the agent a subtask is dispatched to has every
\* required capability and no agent before it in Object.values(app.agents)
\* has; a subtask no agent matches ends the invocation with "No agent
\* found", and neither that subtask nor a later one is dispatched.
C13_FirstMatchInValuesOrder ==
  /\ LET values == ObjectValues(agents)
     IN \A d \in 1..Len(dispatches) :
          \E r \in DOMAIN values :
            /\ agents[values[r]].name = dispatches[d].agent
            /\ Matches(agents[values[r]], dispatches[d].task)
            /\ \A q \in 1..(r - 1) :
                 ~Matches(agents[values[q]], dispatches[d].task)
  /\ \A i \in DOMAIN invs :
       \A k \in 1..Len(invs[i].subtasks) :
         (\A a \in DOMAIN agents : ~Matches(agents[a], invs[i].subtasks[k]))
         => /\ \A d \in 1..Len(dispatches) :
                 dispatches[d].inv = i => dispatches[d].k < k
            /\ invs[i].pc = "done" => invs[i].st = "err"
            /\ (invs[i].pc = "done" /\ invs[i].k = k) => NoAgentFound(i)
  /\ \A i \in DOMAIN invs :
       NoAgentFound(i) =>
         \A a \in DOMAIN agents : ~Matches(agents[a], invs[i].subtasks[invs[i].k])

\* a first subtask has gone to an agent that is not the first of the
\* registry, and the second subtask has found no agent
C13_Witness ==
  \E i \in DOMAIN invs :
    /\ NoAgentFound(i)
    /\ invs[i].k = 2
    /\ Len(invs[i].subtaskResults) = 1
    /\ \E d \in 1..Len(dispatches) :
         /\ dispatches[d].inv = i
         /\ dispatches[d].k = 1
         /\ PlaceOf(RegisteredAs(dispatches[d].agent)) > 1

\* C13 (as stated): the selected agent is the first in registration order
\* that has every required capability: no agent registered before it has.
C13_Original ==
  \A d \in 1..Len(dispatches) :
    LET a == RegisteredAs(dispatches[d].agent)
    IN /\ Matches(agents[a], dispatches[d].task)
       /\ \A b \in DOMAIN agents :
            b < a => ~Matches(agents[b], dispatches[d].task)

\* the own properties of the k-th subtask result of an invocation
ResultProps(i, k) == OwnProps(NoHeap, invs[i].subtaskResults[k])

\* the subtask results that have a key, by their number
Having(i, key) ==
  {k \in 1..Len(invs[i].subtaskResults) : key \in DOMAIN ResultProps(i, k)}

\* C14: the aggregation of one subtask result is that result, unmodified;
\* the aggregation of several is their shallow merge in dispatch order:
\* it has every key of every result, and a key that several results have
\* carries the value of the last of them.  The results are those of the
\* dispatches of the invocation, in their order.
C14_AggregateMergesInOrder ==
  \A i \in DOMAIN invs :
    LET inv == invs[i]
        results == inv.subtaskResults
    IN /\ inv.pc \in {"aggregate", "evaluate", "handled", "retrying"}
            => inv.aggregatedResult # Undefined
       /\ \A k \in 1..Len(results) :
            /\ \E d \in 1..Len(dispatches) :
                 dispatches[d].inv = i /\ dispatches[d].k = k
            /\ \A j \in 1..(k - 1) : DispatchOf(i, j) < DispatchOf(i, k)
            /\ "by" \in DOMAIN ResultProps(i, k)
                 => ResultProps(i, k)["by"] = Str(dispatches[DispatchOf(i, k)].agent)
       /\ inv.aggregatedResult # Undefined =>
            /\ Len(results) = Len(inv.subtasks)
            /\ Len(results) = 1 => inv.aggregatedResult = results[1]
            /\ Len(results) # 1 =>
                 /\ inv.aggregatedResult.t = "obj"
                 /\ DOMAIN inv.aggregatedResult.o =
                      UNION {DOMAIN ResultProps(i, k) : k \in 1..Len(results)}
                 /\ \A key \in DOMAIN inv.aggregatedResult.o :
                      LET last == CHOOSE k \in Having(i, key) :
                                    \A j \in Having(i, key) : j <= k
                      IN inv.aggregatedResult.o[key] = ResultProps(i, last)[key]

\* three results of two agents have been merged: every agent wrote "by",
\* and the aggregate carries the last one
C14_Witness ==
  \E i \in DOMAIN invs :
    /\ invs[i].aggregatedResult # Undefined
    /\ Len(invs[i].subtaskResults) = 3
    /\ Having(i, "by") = {1, 2, 3}
    /\ ResultProps(i, 1)["by"] # ResultProps(i, 3)["by"]
    /\ invs[i].aggregatedResult.o["by"] = ResultProps(i, 3)["by"]

\* the invocation has been evaluated against declared criteria
EvaluatedOnCriteria(i) ==
  /\ Evaluated(i)
  /\ options.enableAutoEvaluation
  /\ invs[i].task.evaluationCriteria.has

\* the average of the scores drawn for the criteria
Average(i) ==
  Quotient(Sum(invs[i].scores), Len(invs[i].task.evaluationCriteria.x))

\* C15 (what the code does): with evaluation enabled and criteria declared
\* the evaluation passes exactly when the average score is at least the
\* configured threshold, or at least 0.7 when the configured threshold is 0.
C15_ThresholdOrDefault ==
  \A i \in DOMAIN invs :
    EvaluatedOnCriteria(i) =>
      /\ invs[i].evaluation.x.score = Average(i)
      /\ invs[i].evaluation.x.passed <=>
           AtLeast(Average(i), IF options.evaluationThreshold = 0 THEN 70
                               ELSE options.evaluationThreshold)

\* with the threshold configured as 0, an average below 0.7 has not passed
C15_Witness ==
  \E i \in DOMAIN invs :
    /\ EvaluatedOnCriteria(i)
    /\ options.evaluationThreshold = 0
    /\ Len(invs[i].scores) = 2
    /\ ~AtLeast(Average(i), 70)
    /\ ~invs[i].evaluation.x.passed

\* C15 (as stated): with evaluation enabled and criteria declared the
\* evaluation passes exactly when the average score is at least the
\* configured threshold, for every configured threshold (0 included).
C15_Original ==
  \A i \in DOMAIN invs :
    EvaluatedOnCriteria(i) =>
      (invs[i].evaluation.x.passed <=>
         AtLeast(Average(i), options.evaluationThreshold))

\* the attempts of Retry activation f: the activations of its target
AttemptsOf(f) == {k \in DOMAIN frames : frames[k].par = f}

\* the number of executions of the target after which a Retry step with
\* maxRetries m gives up, when every execution fails: m + 1, or fewer when
\* the predicate answers false before
GivesUpAfter(step) ==
  CASE step.condition = CondConst(FALSE) -> 1
    [] step.condition.k = "below" ->
         IF step.condition.n < step.maxRetries THEN step.condition.n + 1
         ELSE step.maxRetries + 1
    [] OTHER -> step.maxRetries + 1

\* C18: a Retry step with maxRetries m whose target fails on every
\* execution executes the target exactly m + 1 times when it has no
\* predicate or one that is always true, and then fails with the last
\* error; when the predicate answers false after a failure the target is
\* not executed again and that error is raised.  The target is never
\* executed more than m + 1 times.
C18_RetryStepAttempts ==
  scn = "retryStep" =>
    \A f \in DOMAIN frames :
      frames[f].step = "rs" =>
        LET step == def["rs"]
            kids == AttemptsOf(f)
            last == CHOOSE k \in kids : \A j \in kids : j <= k
        IN /\ Cardinality(kids) <= step.maxRetries + 1
           /\ Len(calls) <= Cardinality(kids)
           /\ \A k \in kids : frames[k].step = "t"
           /\ (/\ frames[f].st = "err"
               /\ \A k \in kids : frames[k].st = "err"
               /\ step.condition.k # "throws") =>
                /\ Cardinality(kids) = GivesUpAfter(step)
                /\ Len(calls) = GivesUpAfter(step)
                /\ frames[f].v = frames[last].v
                /\ frames[f].v = Err(def["t"].taskName, Len(calls))
           /\ frames[f].st = "ok" =>
                /\ frames[last].st = "ok"
                /\ \A k \in kids \ {last} : frames[k].st = "err"

\* a Retry step with maxRetries 2 and no predicate, whose target has failed
\* three times, has failed with the third error
C18_Witness ==
  /\ scn = "retryStep"
  /\ def["rs"].maxRetries = 2
  /\ def["rs"].condition = NoCond
  /\ def["t"].taskName = "boom"
  /\ Len(calls) = 3
  /\ frames[1].st = "err"
  /\ frames[1].v = Err("boom", 3)
  /\ run.pc = "raised"

\* invocation i has ended because the agent of its k-th subtask raised
RaisedAt(i) ==
  /\ invs[i].pc = "done"
  /\ invs[i].st = "err"
  /\ invs[i].child = 0
  /\ \E d \in 1..Len(dispatches) :
       /\ dispatches[d].inv = i
       /\ dispatches[d].k = invs[i].k
       /\ dispatches[d].out.has
       /\ ~dispatches[d].out.x.ok

\* what the agent of the failed subtask of invocation i raised
RaisedBy(i) == dispatches[DispatchOf(i, invs[i].k)].out.x.v

\* the ExecutionContext of invocation i has an error entry for error e and
\* is marked failed
FailedContext(i, e) ==
  LET context == contexts[invs[i].taskId]
  IN /\ context.status = "failed"
     /\ \E l \in 1..Len(context.logs) :
          context.logs[l] = [level |-> "error",
                             message |-> <<"Task failed: ", Message(e)>>]

\* C19 (what the code does): when an agent raises during dispatch the
\* invocation dispatches no later subtask, evaluates nothing and starts no
\* retry; its context has an error entry and is marked failed; the error
\* raised again is the one of the agent, but a TypeError when the agent
\* raised null or undefined.  A context is marked completed only when an
\* invocation with its task id has returned a result.
C19_ExecutorErrorEndsTask ==
  /\ \A i \in DOMAIN invs :
       RaisedAt(i) =>
         /\ \A d \in 1..Len(dispatches) :
              dispatches[d].inv = i => dispatches[d].k <= invs[i].k
         /\ Len(invs[i].subtaskResults) = invs[i].k - 1
         /\ invs[i].aggregatedResult = Undefined
         /\ ~Evaluated(i)
         /\ FailedContext(i, invs[i].v)
         /\ invs[i].v = IF RaisedBy(i).t \in {"undef", "null"}
                        THEN Err("TypeError", DispatchOf(i, invs[i].k))
                        ELSE RaisedBy(i)
  /\ \A d \in 1..Len(dispatches) :
       (dispatches[d].out.has /\ ~dispatches[d].out.x.ok)
         => RaisedAt(dispatches[d].inv) /\ invs[dispatches[d].inv].k = dispatches[d].k
  /\ \A id \in DOMAIN contexts :
       contexts[id].status = "completed" =>
         \E i \in DOMAIN invs : invs[i].taskId = id /\ invs[i].st = "ok"

\* the agent of the second of three subtasks has raised, in a first attempt
\* whose task has criteria to be evaluated on
C19_Witness ==
  \E i \in DOMAIN invs :
    /\ RaisedAt(i)
    /\ invs[i].k = 2
    /\ Len(invs[i].subtasks) = 3
    /\ invs[i].task.evaluationCriteria.has
    /\ options.enableAutoEvaluation
    /\ RaisedBy(i).t = "err"
    /\ invs[i].v = RaisedBy(i)

\* C19 (as stated): when an agent raises during dispatch, the error that
\* executeTask raises is the error the agent raised.
C19_Original ==
  \A i \in DOMAIN invs : RaisedAt(i) => invs[i].v = RaisedBy(i)

\* the object that execute created as context.output, as it is now
Accumulator == heap[<<"out", 1, "">>].o

\* C20 (what the code does): while the traversal runs, the output mapping
\* of format writes its target key into the object created as
\* context.output; when the traversal has returned, context.output is the
\* value it returned, which is also what execute returns, and no longer
\* that object.
C20_OutputIsReturnValue ==
  scn = "sequence" =>
    /\ (\E f \in DOMAIN frames :
          frames[f].step = "format" /\ frames[f].pc \in {"store", "hookEnd", "done"})
         => "total" \in DOMAIN Accumulator
    /\ run.pc \in {"hookEnd", "returned"} =>
         /\ ctxs[1].output = frames[1].v
         /\ ctxs[1].output # Ref(<<"out", 1, "">>)
    /\ run.pc = "returned" => run.ret = ctxs[1].output

\* the run of fetch -> format has returned: the object created as
\* context.output has the mapped key total, context.output has not
C20_Witness ==
  /\ FetchFormat
  /\ run.pc = "returned"
  /\ "total" \in DOMAIN Accumulator
  /\ Accumulator["total"] = Num(7)
  /\ "total" \notin DOMAIN OwnProps(heap, ctxs[1].output)

\* C20 (as stated): after a successful execute, context.output holds every
\* key written by the output mappings (here the key total, written by the
\* mapping of format).
C20_Original ==
  (scn = "sequence" /\ run.pc = "returned")
    => "total" \in DOMAIN OwnProps(heap, ctxs[1].output)

\* a run after the first one is under way or has settled
RunAgain == run.completed + run.errored >= 1 /\ frames # <<>>

\* C21: a run never changes the stored definition (no step of a run, with
\* or without Task-step retries, changes a step's budget, successors or
\* configuration), so every later execute of the workflow enters its steps
\* with the declared budgets again: a step whose work always fails is then
\* again invoked once more than its declared budget before it fails
C21_DefinitionKept ==
  /\ [][def' = def /\ entry' = entry]_wfvars
  /\ [](RunAgain =>
         /\ frames[1].bud = Budgets
         /\ \A f \in DOMAIN frames :
              (frames[f].via = "call" /\ StepOf(f).type = "task"
                 /\ frames[f].st = "err" /\ AlwaysFailed(f)) =>
                Cardinality(CallsBy(ChainOf(f))) = StepOf(f).retries + 1)

\* the second run of a workflow whose step has budget 2 has failed after
\* three invocations, as the first run did
C21_Witness ==
  /\ RunAgain
  /\ run.errored = 2
  /\ def[frames[1].step].retries = 2
  /\ frames[1].st = "err"
  /\ Cardinality(CallsBy(ChainOf(1))) = 3

\* the last attempt of the retry chain that starts at f
LastOf(f) == CHOOSE g \in ChainOf(f) : \A h \in ChainOf(f) : h <= g

\* a Task step entered by activation f has failed for good
Exhausted(f) ==
  /\ frames[f].step \in DOMAIN def
  /\ StepOf(f).type = "task"
  /\ frames[f].via = "call"
  /\ frames[f].st = "err"

\* caller p catches a failure of the activation g it has called: as a Retry
\* step on its target, as a Parallel step that races its branches, as a
\* Task step with budget left on its successor
Catches(p, g) ==
  /\ frames[g].via = "call"
  /\ LET step == StepOf(p)
     IN \/ step.type = "retry" /\ frames[g].step = step.stepId
        \/ step.type = "parallel" /\ ~step.waitForAll
        \/ step.type = "task" /\ frames[p].bud[frames[p].step] > 0

\* the failure of activation f is caught by one of its callers
RECURSIVE Caught(_)
Caught(f) ==
  LET p == frames[f].par
  IN p # 0 /\ (Catches(p, f) \/ Caught(p))

\* activation f is made, directly or not, by a Retry step
RECURSIVE UnderRetry(_)
UnderRetry(f) ==
  LET p == frames[f].par
  IN p # 0 /\ (StepOf(p).type = "retry" \/ UnderRetry(p))

\* the run has gone past the traversal without a failure
Passed == run.pc \in {"hookEnd", "returned"}

\* C22 (as stated): the failure that leaves a Task step is the error of the
\* step's first attempt, and the run returns only if an enclosing Retry step
\* caught it
C22_Original ==
  \A f \in DOMAIN frames :
    Exhausted(f) =>
      /\ frames[f].v = frames[f].err
      /\ Passed => UnderRetry(f)

\* C22: the failure that leaves a Task step whose budget is exhausted is
\* the error caught by its last attempt (the one made with budget 0), as
\* it is; the run returns a result only if one of the step's callers has
\* caught the failure (a Retry step, a racing Parallel step, or a preceding
\* Task step with budget left), otherwise it raises it
C22_LastFailureLeavesStep ==
  \A f \in DOMAIN frames :
    Exhausted(f) =>
      /\ frames[LastOf(f)].bud[frames[f].step] = 0
      /\ frames[f].v = frames[LastOf(f)].err
      /\ Passed => Caught(f)
      /\ (f = 1 /\ run.pc = "raised") => run.ret = frames[f].v

\* a step with budget 2 has failed on the error of its third invocation,
\* and the run has raised it
C22_Witness ==
  /\ scn = "retry"
  /\ run.pc = "raised"
  /\ Exhausted(1)
  /\ StepOf(1).retries = 2
  /\ frames[1].err = Err("boom", 1)
  /\ run.ret = Err("boom", 3)

\* activation f has evaluated a Condition step and the predicate has
\* answered
Chosen(f) ==
  /\ frames[f].step \in DOMAIN def
  /\ StepOf(f).type = "condition"
  /\ \/ frames[f].pc \in {"awaitBranch", "store", "hookEnd", "awaitNext"}
     \/ frames[f].kids # <<>>

\* the answer of the predicate of the Condition step of f on the context
Holds(f) == EvalCond(StepOf(f).condition, heap, ctxs[frames[f].cx], 0).v

\* the activations that execute a target of the Condition step of f
Targets(f) ==
  {g \in DOMAIN frames :
     frames[g].par = f /\ frames[g].step \in {StepOf(f).trueNext, StepOf(f).falseNext}}

\* the activations that the evaluation of f has led to
RECURSIVE Below(_)
Below(f) ==
  LET K == {g \in DOMAIN frames : frames[g].par = f}
  IN K \cup UNION {Below(g) : g \in K}

\* C23: an evaluation of a Condition step whose predicate has answered
\* executes exactly one target, trueNext if the answer is truthy and
\* falseNext if not; the other target is executed by no activation below
\* it; the traversal goes on to the target's successor, and the result
\* stored for the Condition step is the value the traversal of the target
\* has returned (that of the last step of the target's chain)
C23_ConditionTakesOneTarget ==
  \A f \in DOMAIN frames :
    /\ (frames[f].step \in DOMAIN def /\ StepOf(f).type = "condition"
          /\ ~Chosen(f)) => Targets(f) = {}
    /\ Chosen(f) =>
         LET step == StepOf(f)
             taken == IF Holds(f) THEN step.trueNext ELSE step.falseNext
             other == IF Holds(f) THEN step.falseNext ELSE step.trueNext
             cx == ctxs[frames[f].cx]
         IN /\ Cardinality(Targets(f)) = 1
            /\ \A g \in Targets(f) :
                 /\ frames[g].step = taken
                 /\ (frames[g].st = "ok" /\ HasSuccessor(StepOf(g))) =>
                      \E h \in DOMAIN frames :
                        /\ frames[h].par = g
                        /\ frames[h].step = StepOf(g).next.id
                        /\ frames[h].st = "ok"
                        /\ frames[g].v = frames[h].v
                 /\ frames[f].step \in DOMAIN cx.steps =>
                      /\ frames[g].st = "ok"
                      /\ cx.steps[frames[f].step] = frames[g].v
            /\ \A g \in Below(f) : frames[g].step # other

\* the predicate read a truthy input.go: yes and its successor after were
\* executed, and the result of after, not that of yes, is stored for the
\* Condition step
C23_Witness ==
  /\ scn = "choice"
  /\ def["choice"].condition.k = "truthy"
  /\ run.pc = "returned"
  /\ \E g \in Targets(1) :
       /\ frames[g].step = "yes"
       /\ ctxs[1].steps["choice"] = ctxs[1].steps["after"]
       /\ ctxs[1].steps["choice"] # ctxs[1].steps["yes"]
       /\ "no" \notin DOMAIN ctxs[1].steps

\* activation f executes a Map step whose item source does not resolve to
\* an array on the context of f
NoItems(f) ==
  /\ frames[f].step \in DOMAIN def
  /\ StepOf(f).type = "map"
  /\ LET value == ItemSource(StepOf(f).items, heap, ctxs[frames[f].cx])
     IN value.ok => ~ItemsIn(heap, value.v).ok

\* C24: a Map step whose item source (a steps. path or a key of the
\* workflow input) does not resolve to an array, a missing path or key
\* included, fails with an error about the type of the source before any
\* iterator execution is dispatched; the error is recorded at
\* context.errors under the id of the Map step, context.steps gets no entry
\* for it, and the step leaves with that error
C24_MapSourceNotArray ==
  \A f \in DOMAIN frames :
    NoItems(f) =>
      LET fr == frames[f]
          cx == ctxs[fr.cx]
          value == ItemSource(StepOf(f).items, heap, cx)
          e == IF value.ok THEN ItemsIn(heap, value.v).v ELSE value.v
      IN /\ fr.pc \in {"hookStart", "dispatch", "catch", "hookError", "done"}
         /\ Below(f) = {}
         /\ \A i \in 1..Len(calls) : calls[i].task # StepOf(f).iteratorTask
         /\ fr.step \notin DOMAIN cx.steps
         /\ fr.pc \in {"catch", "hookError", "done"} => fr.err = e
         /\ fr.pc \in {"hookError", "done"} =>
              (fr.step \in DOMAIN cx.errors /\ cx.errors[fr.step] = e)
         /\ fr.pc = "done" => (fr.st = "err" /\ fr.v = e)
         /\ e.e \in {"Map items must be an array", "TypeError"}

\* the source steps.pre.k holds a number: the Map step has failed, the
\* error is recorded under its id and the run has raised it
C24_Witness ==
  /\ scn = "mapSource"
  /\ def["m"].items.p = <<"steps", "pre", "k">>
  /\ run.pc = "raised"
  /\ \E f \in DOMAIN frames :
       /\ NoItems(f)
       /\ frames[f].st = "err"
       /\ ctxs[1].errors["m"] = Err("Map items must be an array", 0)
       /\ run.ret = ctxs[1].errors["m"]
       /\ DOMAIN ctxs[1].steps = {"pre"}

\* activation f executes a Map step
MapRun(f) == frames[f].step \in DOMAIN def /\ StepOf(f).type = "map"

\* the iterator executions that the Map-step activation f has started, each
\* on a sub-context of its own
ItemRuns(f) ==
  {g \in DOMAIN frames : frames[g].par = f /\ frames[g].cx # frames[f].cx}

\* those of them that are in flight
InFlight(G) == {g \in G : frames[g].st = "run"}

\* the number of the batch of f in which the iterator execution g was started
BatchOf(f, g) ==
  (Cardinality({h \in ItemRuns(f) : h <= g}) - 1) \div Concurrency(StepOf(f))

\* no item of a batch of f is started before every item of the batches
\* before it has completed
BatchesInTurn(f) ==
  \A g, h \in ItemRuns(f) :
    BatchOf(f, g) < BatchOf(f, h) => frames[g].st = "ok"

\* C25 (as stated): at every moment at most `concurrency` iterator
\* executions started by a given Map step are in flight
C25_Original ==
  \A s \in DOMAIN def :
    def[s].type = "map" =>
      Cardinality(InFlight(UNION {ItemRuns(f) : f \in {g \in DOMAIN frames :
                                                          frames[g].step = s}}))
        <= Concurrency(def[s])

\* C25: of the iterator executions started by one execution of a Map step,
\* at most `concurrency` (5 when none is configured) are in flight at every
\* moment, and none of a batch is started before all of the batches before
\* it have completed
C25_BatchesBounded ==
  \A f \in DOMAIN frames :
    MapRun(f) =>
      /\ Cardinality(InFlight(ItemRuns(f))) <= Concurrency(StepOf(f))
      /\ BatchesInTurn(f)

\* a Map step without configured concurrency over six items: the sixth
\* iterator execution is in flight and the five of the first batch have
\* completed
C25_Witness ==
  /\ scn = "mapDefault"
  /\ ~def["m"].concurrency.has
  /\ Cardinality(ItemRuns(1)) = 6
  /\ Cardinality(InFlight(ItemRuns(1))) = 1
  /\ \A g \in ItemRuns(1) : frames[g].st = "run" <=> BatchOf(1, g) = 1

\* the sub-contexts that Map steps have made for their items
ItemContexts == {c \in DOMAIN ctxs : ctxs[c].parent # 0}

\* the key map of the object that context c holds as its output
OutputOf(h, c) ==
  IF c.output.t = "ref" /\ c.output.r \in DOMAIN h THEN h[c.output.r].o
  ELSE EmptyMap

\* this step is taken by an activation of executeStep that runs on context
\* c, or by execute on the context of the run
ActsOn(c) ==
  \/ \E g \in DOMAIN frames : frames[g].cx = c /\ frames'[g] # frames[g]
  \/ c = 1 /\ run' # run

\* this step leaves the steps, the errors and the output object of the
\* contexts alone, except those of the context it runs on
OwnContextOnly ==
  \A c \in DOMAIN ctxs :
    (c \in DOMAIN ctxs' /\ ctxs'[c].parent = ctxs[c].parent) =>
      \/ ActsOn(c)
      \/ /\ ctxs'[c].steps = ctxs[c].steps
         /\ ctxs'[c].errors = ctxs[c].errors
         /\ OutputOf(heap', ctxs'[c]) = OutputOf(heap, ctxs[c])

\* this step gives every sub-context it makes an item as input, an empty
\* output object, and a copy of the steps and errors of its parent
MadeFromParent ==
  \A c \in DOMAIN ctxs' \ DOMAIN ctxs :
    ctxs'[c].parent # 0 =>
      LET par == ctxs[ctxs'[c].parent]
      IN /\ \E f \in DOMAIN frames :
              /\ MapRun(f)
              /\ frames[f].cx = ctxs'[c].parent
              /\ \E i \in 1..Len(frames'[f].items) :
                   ctxs'[c].input = frames'[f].items[i]
         /\ ctxs'[c].output.t = "ref"
         /\ OutputOf(heap', ctxs'[c]) = EmptyMap
         /\ ctxs'[c].output # par.output
         /\ ctxs'[c].steps = par.steps
         /\ ctxs'[c].errors = par.errors

\* C26: each item of a Map step runs on a sub-context of its own, whose
\* input is the item, whose output is a new empty object and whose steps
\* and errors are copies of the parent's: only activations that run on a
\* context change an entry of its steps, errors or output, so the iterator
\* executions change none of the parent and none of a sibling; one
\* activation enters each sub-context; and the iterator's id is no key of
\* the parent's context.steps, which gains only the entry of the Map step
C26_ItemContextsApart ==
  /\ [][OwnContextOnly /\ MadeFromParent]_wfvars
  /\ [](\A c \in ItemContexts :
          /\ Cardinality({g \in DOMAIN frames :
                            frames[g].cx = c /\ frames[frames[g].par].cx # c}) = 1
          /\ \A f \in DOMAIN frames :
               (MapRun(f) /\ frames[f].cx = ctxs[c].parent) =>
                 /\ StepOf(f).iteratorTask \notin DOMAIN ctxs[frames[f].cx].steps
                 /\ DOMAIN ctxs[c].steps \subseteq
                      DOMAIN ctxs[frames[f].cx].steps \cup {StepOf(f).iteratorTask})

\* a Map step over three items in batches of two has completed: each of
\* the three sub-contexts holds the iterator's result and output for its
\* own item, and the context of the run holds the entry of the Map step
\* only and an empty output
C26_Witness ==
  /\ scn = "map"
  /\ Cardinality(ItemContexts) = 3
  /\ \E f \in DOMAIN frames : MapDone(f) /\ frames[f].pc = "hookEnd"
  /\ DOMAIN ctxs[1].steps = {"m"}
  /\ OutputOf(heap, ctxs[1]) = EmptyMap
  /\ \A c \in ItemContexts :
       /\ DOMAIN ctxs[c].steps = {"it"}
       /\ OutputOf(heap, ctxs[c]) = ("out" :> ctxs[c].input)

\* the waits that the Retry-step activation f has started so far
WaitsBegun(f) ==
  IF frames[f].pc = "retryWait" THEN frames[f].att + 1 ELSE frames[f].att

\* delay * factor^0 + ... + delay * factor^(k - 1)
RECURSIVE Backoff(_, _, _)
Backoff(delay, factor, k) ==
  IF k = 0 THEN 0 ELSE Backoff(delay, factor, k - 1) + delay * factor ^ (k - 1)

\* C27: the wait that a Retry step starts after its failed attempt number n
\* (from 0) is delay * backoffFactor^n, with delay 1000 and backoffFactor 1
\* when they are not configured: the time waited after n + 1 waits is the
\* sum of these for 0..n; no wait is started after attempt number
\* maxRetries, nor when the predicate has answered false or raised, so a
\* step with maxRetries m whose target always fails has waited the sum for
\* 0..m-1 when it fails (without predicate or with one that is always
\* true), and the sum up to the attempt that was vetoed otherwise
C27_BackoffWaits ==
  \A f \in DOMAIN frames :
    (frames[f].step \in DOMAIN def /\ StepOf(f).type = "retry") =>
      LET step == StepOf(f)
          delay == IF step.delay.has THEN step.delay.x ELSE 1000
          factor == IF step.backoffFactor.has THEN step.backoffFactor.x ELSE 1
      IN /\ frames[f].wait = Backoff(delay, factor, WaitsBegun(f))
         /\ WaitsBegun(f) <= step.maxRetries
         /\ (/\ frames[f].st = "err"
             /\ \A k \in AttemptsOf(f) : frames[k].st = "err"
             /\ step.condition.k # "throws") =>
              frames[f].wait = Backoff(delay, factor, GivesUpAfter(step) - 1)
         /\ (frames[f].st = "err" /\ step.condition.k = "throws") =>
              frames[f].wait = 0

\* a Retry step with maxRetries 2, delay 100 and backoffFactor 3 has failed
\* after three failed attempts: it has waited 100 + 300
C27_Witness ==
  /\ scn = "retryStep"
  /\ def["rs"].delay = Some(100)
  /\ def["rs"].condition = NoCond
  /\ \E f \in DOMAIN frames :
       /\ frames[f].step = "rs"
       /\ frames[f].st = "err"
       /\ Cardinality(AttemptsOf(f)) = 3
       /\ frames[f].wait = 400

\* the dispatches that activation i has made before its dispatch d
Before(i, d) == {e \in 1..(d - 1) : dispatches[e].inv = i}

\* the input of activation i with the results of its subtasks 1..k
\* assigned onto it one after the other
RECURSIVE InputWith(_, _)
InputWith(i, k) ==
  IF k = 0 THEN invs[i].input.o
  ELSE LET result == dispatches[DispatchOf(i, k)].out.x.v
       IN (IF result.t = "obj" THEN result.o ELSE EmptyMap) @@ InputWith(i, k - 1)

\* the capabilities of the agent of dispatch d
CapabilitiesAt(d) ==
  LET agent == agents[RegisteredAs(dispatches[d].agent)]
  IN IF agent.capabilities.has THEN agent.capabilities.x ELSE <<>>

\* C28: subtasks are dispatched one at a time in the order of the
\* decomposition: when the executor of subtask k is invoked, the executors
\* of subtasks 1..k-1 have been invoked in this order and have returned;
\* the input it receives is the input of executeTask with the results of
\* subtasks 1..k-1 assigned onto it in this order (a later result wins on
\* a key), normalised for the capabilities of the agent; and the input
\* object of the caller is never changed
C28_SubtasksInTurn ==
  /\ [][\A i \in DOMAIN invs : invs'[i].input = invs[i].input]_vars
  /\ [](\A d \in DOMAIN dispatches :
          LET i == dispatches[d].inv
              k == dispatches[d].k
          IN /\ dispatches[d].task = invs[i].subtasks[k]
             /\ {dispatches[e].k : e \in Before(i, d)} = 1..(k - 1)
             /\ Cardinality(Before(i, d)) = k - 1
             /\ \A e \in Before(i, d) :
                  /\ dispatches[e].out.has /\ dispatches[e].out.x.ok
                  /\ \A e2 \in Before(i, d) :
                       e < e2 => dispatches[e].k < dispatches[e2].k
             /\ dispatches[d].input =
                  normalizeInputForCapabilities(Obj(InputWith(i, k - 1)),
                                                CapabilitiesAt(d)))

\* the third subtask of a task given {topic} is dispatched to the writer
\* after the researcher and the writer have answered: its input has the
\* topic, the keys of both results with `by` from the second, and the
\* alias concept that the writer's capabilities add
C28_Witness ==
  \E d \in DOMAIN dispatches :
    /\ dispatches[d].k = 3
    /\ dispatches[d].agent = "writer"
    /\ ~dispatches[d].out.has
    /\ invs[dispatches[d].inv].input = Obj("topic" :> Str("tla"))
    /\ DOMAIN dispatches[d].input.o =
         {"topic", "by", "researcher", "writer", "concept"}
    /\ dispatches[d].input.o["by"] = Str("writer")
    /\ dispatches[d].input.o["concept"] = Str("tla")

\* the evaluation of activation i has failed and handleEvaluation has gone on
Failed(i) ==
  /\ Evaluated(i)
  /\ ~invs[i].evaluation.x.passed
  /\ invs[i].pc # "evaluate"

\* handleEvaluation of activation i has called executeTask again
Retried(i) == invs[i].child # 0

\* the limit the attempts are compared with: maxAttempts, the option
\* maxRetries when maxAttempts is undefined or 0, 2 when that is 0 too
LimitOf(task) ==
  IF task.maxAttempts.t = "num" /\ task.maxAttempts.n # 0
  THEN task.maxAttempts.n
  ELSE IF options.maxRetries # 0 THEN options.maxRetries ELSE 2

AllHooksRan(f) ==
  /\ frames[f].hk = Len(hooks[EventOf(frames[f].pc)])
  /\ ~frames[f].hrun

\* the activations created in this step
Created == DOMAIN frames' \ DOMAIN frames

\* the last of the calls of executeStep made in this step on the context of
\* the new activation f that found their step
LastOn(f) ==
  CHOOSE g \in Created :
    /\ frames'[g].cx = frames'[f].cx
    /\ frames'[g].pc = "hookStart"
    /\ \A h \in Created :
         (frames'[h].cx = frames'[f].cx /\ frames'[h].pc = "hookStart") => h <= g

\* activation f comes to pc in this step
Comes(f, pc) == f \in DOMAIN frames /\ frames[f].pc # pc /\ frames'[f].pc = pc

\* the procedure of executeStep around the hooks, for activation f
StepOrdered(f) ==
  /\ (f \in Created /\ frames'[f].pc = "hookStart")
     => /\ ctxs'[frames'[f].cx].currentStep = frames'[LastOn(f)].step
        /\ frames'[f].hk = 0
  /\ Comes(f, "dispatch") => frames[f].pc = "hookStart" /\ AllHooksRan(f)
  /\ Comes(f, "hookEnd")
     => /\ frames[f].pc = "store"
        /\ frames'[f].hk = 0
        /\ frames[f].step \in DOMAIN ctxs'[frames[f].cx].steps
        /\ ctxs'[frames[f].cx].steps[frames[f].step] = frames[f].res
  /\ Comes(f, "awaitNext") => frames[f].pc = "hookEnd" /\ AllHooksRan(f)
  /\ Comes(f, "hookError")
     => /\ frames[f].pc = "catch"
        /\ frames'[f].hk = 0
        /\ frames[f].step \in DOMAIN ctxs'[frames[f].cx].errors
        /\ ctxs'[frames[f].cx].errors[frames[f].step] = frames[f].err
  /\ (f \in DOMAIN frames /\ frames[f].pc \in HookPcs /\ frames[f].st = "run"
      /\ frames'[f].pc # frames[f].pc)
     => IF AllHooksRan(f)
        THEN \/ frames[f].pc = "hookStart"
             \/ frames[f].pc = "hookEnd"
                /\ frames'[f].pc = "done" => /\ frames'[f].st = "ok"
                                             /\ frames'[f].v = frames[f].res
             \/ /\ frames[f].pc = "hookError"
                /\ \/ frames'[f].pc \in {"retryDelay", "tail"}
                   \/ /\ frames'[f].pc = "done"
                      /\ frames'[f].st = "err"
                      /\ frames'[f].v = frames[f].err
        ELSE /\ frames[f].hrun
             /\ hooks[EventOf(frames[f].pc)][frames[f].hk + 1] = "throws"
             /\ IF frames[f].pc = "hookEnd"
                THEN /\ frames'[f].pc = "catch"
                     /\ frames'[f].err = Err("hook", frames[f].hk + 1)
                ELSE /\ frames'[f].pc = "done"
                     /\ frames'[f].st = "err"
                     /\ frames'[f].v = Err("hook", frames[f].hk + 1)
  /\ (f \in DOMAIN frames /\ frames[f].pc \in HookPcs
      /\ frames'[f].pc = frames[f].pc /\ frames'[f].hk # frames[f].hk)
     => /\ frames[f].hrun
        /\ frames'[f].hk = frames[f].hk + 1
        /\ hooks[EventOf(frames[f].pc)][frames'[f].hk] = "ok"

\* the hooks of the event activation f waits on: one is awaited, the one
\* after those that have completed, and the result (the error) of the step
\* is in the context while the end (error) hooks run
HooksInTurn(f) ==
  (frames[f].st = "run" /\ frames[f].pc \in HookPcs)
  => LET hs == hooks[EventOf(frames[f].pc)]
     IN /\ frames[f].hk <= Len(hs)
        /\ frames[f].hrun <=> frames[f].hk < Len(hs)
        /\ \A k \in 1..frames[f].hk : hs[k] = "ok"
        /\ frames[f].pc = "hookEnd"
           => frames[f].step \in DOMAIN ctxs[frames[f].cx].steps
        /\ frames[f].pc = "hookError"
           => frames[f].step \in DOMAIN ctxs[frames[f].cx].errors

\* C30: for every executed step S, context.currentStep is set to S and all
\* start hooks complete before the dispatch of S begins; the result is
\* stored at context.steps[S] before any end hook runs and all end hooks
\* complete before a successor of S starts (or the result is returned); a
\* caught error is stored at context.errors[S] before any error hook runs
\* and all error hooks complete before the retry starts or the error is
\* raised again; the hooks of an event run one at a time in the order of
\* their registration, and a hook that raises ends the event.
C30_StepProcedureOrdered ==
  /\ [][\A f \in DOMAIN frames' : StepOrdered(f)]_wfvars
  /\ [](\A f \in DOMAIN frames : HooksInTurn(f))

\* with MaxHooks hooks added for each event, a step has failed, its error
\* hooks have run and its retry has succeeded, the end hooks of the retry
\* have run and the successor has been started
C30_Witness ==
  /\ scn = "hooked"
  /\ \A e \in StepEvents : hooks[e] = [k \in 1..MaxHooks |-> "ok"]
  /\ Len(frames) >= 3
  /\ frames[1].pc = "tail"
  /\ frames[2].via = "retry"
  /\ frames[2].pc = "awaitNext"
  /\ frames[3].step = "h2"
  /\ frames[3].pc = "dispatch"
  /\ ctxs[1].currentStep = "h2"
  /\ DOMAIN ctxs[1].steps = {"h1"}
  /\ DOMAIN ctxs[1].errors = {"h1"}

\* the value that the source of an entry of an input mapping stands for on
\* context c: what the function returns, the value below context.steps (or
\* undefined where the path ends early), or the key of context.input
Wanted(src, c) ==
  IF src.k = "fn" THEN GetPath(heap, CtxVal(c), src.p)
  ELSE IF Len(src.p) >= 2 /\ src.p[1] = "steps"
  THEN IF src.p[2] \in DOMAIN c.steps
       THEN GetPath(heap, c.steps[src.p[2]], SubSeq(src.p, 3, Len(src.p)))
       ELSE Undefined
  ELSE GetKey(heap, c.input, Dotted(src.p))

\* the object that an input mapping m stands for on context c
WantedInput(m, c) ==
  Obj([x \in {m[j][1] : j \in DOMAIN m} |->
         Deep(heap, Wanted(m[CHOOSE j \in DOMAIN m : m[j][1] = x][2], c))])

\* some entry of the input mapping of step reads a plain key of the input
ReadsInput(step) ==
  /\ step.inputMap.has
  /\ \E j \in DOMAIN step.inputMap.m :
       LET src == step.inputMap.m[j][2]
       IN src.k = "str" /\ ~(Len(src.p) >= 2 /\ src.p[1] = "steps")

\* the Task steps that have got as far as preparing their input
Prepared ==
  {f \in DOMAIN frames :
     /\ frames[f].step \in DOMAIN def
     /\ StepOf(f).type = "task"
     /\ frames[f].pc \notin {"hookStart", "dispatch", "gate", "inputMap"}}

\* C31 (as stated): the unit of work of a Task step without input mapping
\* receives the input of the run, and a string source that does not start
\* with "steps." yields that key of the input of the run.
C31_Original ==
  \A i \in 1..Len(calls) :
    LET step == StepOf(calls[i].fr)
        m == step.inputMap.m
    IN IF ~step.inputMap.has THEN calls[i].input = Deep(heap, ctxs[1].input)
       ELSE \A j \in DOMAIN m :
              (m[j][2].k = "str" /\ ~(Len(m[j][2].p) >= 2 /\ m[j][2].p[1] = "steps"))
              => calls[i].input.o[m[j][1]]
                   = Deep(heap, GetKey(heap, ctxs[1].input, Dotted(m[j][2].p)))

\* C31 (what the code does): the input of the unit of work of a Task step
\* is the object built from the input mapping entry by entry: a function
\* source gives its value on the context, a string source starting with
\* "steps." the dotted lookup into the context, undefined where a segment
\* is missing, and any other string source that key of context.input, which
\* is the input of the run on the context of the run and the item on the
\* context of an item of a Map step; without input mapping it is
\* context.input itself.  The step fails with a TypeError, before the unit
\* of work is invoked, exactly when a plain key is read from an input that
\* is null or undefined.
C31_InputFromMapping ==
  /\ \A i \in 1..Len(calls) :
       LET f == calls[i].fr
           step == StepOf(f)
           c == ctxs[frames[f].cx]
       IN calls[i].input = IF step.inputMap.has
                           THEN WantedInput(step.inputMap.m, c)
                           ELSE Deep(heap, c.input)
  /\ \A f \in Prepared :
       IF ReadsInput(StepOf(f)) /\ ctxs[frames[f].cx].input.t \in {"undef", "null"}
       THEN /\ frames[f].err = Err("TypeError", 0)
            /\ \A i \in 1..Len(calls) : calls[i].fr # f
       ELSE \E i \in 1..Len(calls) : calls[i].fr = f

\* the iterator of a Map step has read the key q of its item, and the run
\* has the key q in its input with another value
C31_Witness ==
  /\ scn = "inputsMap"
  /\ def["use"].inputMap = MapOf(<<<<"x", SrcStr(<<"q">>)>>>>)
  /\ Len(calls) >= 1
  /\ calls[1].input = Obj("x" :> Num(4))
  /\ Deep(heap, ctxs[1].input) = Obj("q" :> Num(1))

\* the branches that activation f has started for the ids of its next list,
\* in the order of their start
FanOf(f) ==
  LET B == {g \in DOMAIN frames : frames[g].par = f /\ frames[g].via = "call"}
  IN [i \in 1..Cardinality(B) |->
        CHOOSE g \in B : Cardinality({h \in B : h < g}) = i - 1]

\* activation f is at a step whose next is a list and has started the branches
Fanned(f) ==
  /\ frames[f].step \in DOMAIN def
  /\ StepOf(f).next.k = "list"
  /\ FanOf(f) # <<>>

\* C32 (as stated): when the next of a step is a list of ids, one branch
\* per id is started on the context of the step after the result of the
\* step is stored; the step returns the array of the results of the
\* branches in the order of the list, and it fails if a branch fails.
C32_Original ==
  \A f \in DOMAIN frames :
    Fanned(f) =>
      LET B == FanOf(f)
          ids == StepOf(f).next.ids
      IN /\ Len(B) = Len(ids)
         /\ \A i \in 1..Len(B) :
              /\ frames[B[i]].step = ids[i]
              /\ frames[B[i]].cx = frames[f].cx
         /\ frames[f].step \in DOMAIN ctxs[frames[f].cx].steps
         /\ (frames[f].pc = "done" /\ frames[f].st = "ok")
            => /\ \A i \in 1..Len(B) : frames[B[i]].st = "ok"
               /\ Deep(heap, frames[f].v)
                    = Arr([i \in 1..Len(B) |-> Deep(heap, frames[B[i]].v)])
         /\ (frames[f].pc = "done" /\ \E i \in 1..Len(B) : frames[B[i]].st = "err")
            => frames[f].st = "err"

\* C33 (as stated): every activation of executeTask, called by the user or
\* by handleEvaluation for a retry, has an ExecutionContext of its own: no
\* two activations have the same context entry, and the entry of an
\* activation holds the input and the start of that activation only.
C33_Original ==
  \A i \in DOMAIN invs :
    /\ \A j \in DOMAIN invs : i # j => invs[i].taskId # invs[j].taskId
    /\ invs[i].taskId \in DOMAIN contexts
    /\ contexts[invs[i].taskId].input = invs[i].input

\* object o after the Task step has written the result to it: the mapped
\* key at its target, or every key of the result when nothing is mapped
WrittenBy(o, step, result) ==
  IF step.outputMap.has
  THEN PutPath(o, step.outputMap.m[1][2], result.o[step.outputMap.m[1][1]])
  ELSE Obj(Merge(o.o, result.o))

\* the results of the two branches
ResultA == Obj("a" :> Num(1))

ResultB == Obj("b" :> Num(2))

\* the run of the Parallel step and its branches is over
BranchesOver ==
  /\ scn = "parOut"
  /\ run.pc = "returned"
  /\ \A f \in DOMAIN frames : frames[f].pc = "done"

\* C34: when the branches of a Parallel step that waits for all of them
\* succeed, write to different targets and do not read the results of each
\* other, the run ends with the same context.steps (the result of each
\* branch and the array of both), the same context.output (that array) and
\* the same object written by the output mappings, whatever the order in
\* which the branches have run.
C34_SameForEveryInterleaving ==
  BranchesOver =>
    /\ Deep(heap, Obj(ctxs[1].steps))
         = Obj(("w1" :> ResultA) @@ ("w2" :> ResultB)
               @@ ("p" :> Arr(<<ResultA, ResultB>>)))
    /\ Deep(heap, ctxs[1].output) = Arr(<<ResultA, ResultB>>)
    /\ Deep(heap, Ref(<<"out", 1, "">>))
         = WrittenBy(WrittenBy(EmptyObj, def["w1"], ResultA), def["w2"], ResultB)
    /\ Deep(heap, Ref(<<"out", 1, "">>))
         = WrittenBy(WrittenBy(EmptyObj, def["w2"], ResultB), def["w1"], ResultA)

\* both branches have written below the prefix o, the second branch has
\* written and stored its result before the first one, and the run is over
C34_Witness ==
  /\ BranchesOver
  /\ def["w1"].outputMap.m[1][2] = <<"o", "p", "x">>
  /\ def["w2"].outputMap = MapOf(<<<<"b", <<"o", "p", "y">>>>>>)
  /\ calls[1].task = "okB"
  /\ Deep(heap, Ref(<<"out", 1, "">>))
       = Obj("o" :> Obj("p" :> Obj(("x" :> Num(1)) @@ ("y" :> Num(2)))))

\* every context of the run is kept, with every key of its errors
ErrorsKept ==
  \A c \in DOMAIN ctxs :
    /\ c \in DOMAIN ctxs'
    /\ DOMAIN ctxs[c].errors \subseteq DOMAIN ctxs'[c].errors

\* a retry of a step has stored its result: the error of the failed attempt
\* is still under the id of the step
RetryStored ==
  \A f \in DOMAIN frames :
    (frames[f].via = "retry" /\ frames[f].pc \in {"hookEnd", "done"}
       /\ frames[f].st # "err" /\ frames[f].step \in DOMAIN def
       /\ frames[f].step \in DOMAIN ctxs[frames[f].cx].steps)
      => frames[f].step \in DOMAIN ctxs[frames[f].cx].errors

\* C35: no key of context.errors is removed during a run; after the retry
\* of a failed step has stored its result, context.errors still has the
\* error of the failed attempt under the id of the step.
C35_ErrorsOnlyGrow == []RetryStored /\ [][ErrorsKept]_vars

\* the run has returned after the retry of the flaky step t succeeded:
\* context.steps has the result of t, context.errors the error of its first
\* attempt
C35_Witness ==
  /\ scn = "retry"
  /\ run.pc = "returned"
  /\ "t" \in DOMAIN ctxs[1].steps
  /\ "t" \in DOMAIN ctxs[1].errors
  /\ ctxs[1].errors["t"].t = "err"
  /\ "workflow" \notin DOMAIN ctxs[1].errors

\* the activations of the run at the step id
ActivationsAt(id) == {f \in DOMAIN frames : frames[f].step = id}

\* C36 (as stated): a Task step whose own unit of work succeeded is not
\* invoked again in the run because a later step failed: it is entered once,
\* its unit of work is invoked at most once, its budget is the declared one,
\* and no error is recorded under its id.
C36_Original ==
  scn = "retryChain" =>
    /\ Cardinality(ActivationsAt("u")) <= 1
    /\ Cardinality(CallsBy(ActivationsAt("u"))) <= 1
    /\ \A f \in ActivationsAt("u") : frames[f].bud["u"] = def["u"].retries
    /\ \A c \in DOMAIN ctxs : "u" \notin DOMAIN ctxs[c].errors

\* C37 (as stated): once execute has returned a value, the run does not
\* modify that value, whatever the branches that are still running do.
C37_Original ==
  [][(run.pc = "returned" /\ run'.pc = "returned")
       => Deep(heap', run'.ret) = Deep(heap, run.ret)]_vars

\* the call of execute has returned or raised
ExecuteOver == run.pc \in {"returned", "raised"}

\* C38 (as stated): every run of execute over a finite step graph without
\* cycles eventually returns or raises, for every retry budget of a Task
\* step, every maxRetries of a Retry step, every integer concurrency of a
\* Map step and for an empty list of items.
C38_Original == <>ExecuteOver

\* C39 (as stated): in one call of execute the completion handlers and the
\* error handlers are never both invoked: the completion handlers run when
\* the call returns and the error handlers when it raises, and
\* context.errors["workflow"] is set if and only if the call raises.
C39_Original ==
  /\ ~(run.ranCompleted > 0 /\ run.ranError > 0)
  /\ run.pc = "returned" =>
       /\ run.ranCompleted = Len(run.on.onCompleted)
       /\ run.ranError = 0
       /\ "workflow" \notin DOMAIN ctxs[1].errors
  /\ run.pc = "raised" =>
       /\ run.ranCompleted = 0
       /\ run.ranError = CalledOf(run.on.onError)
       /\ "workflow" \in DOMAIN ctxs[1].errors

\* the call of executeTask made on the orchestrator has returned or raised
ExecuteTaskOver == invs # <<>> /\ invs[1].st # "run"

Dangling(f) == frames[f].step \notin DOMAIN def

\* the activations that have called executeStep for f, directly or not
RECURSIVE Above(_)
Above(f) ==
  IF frames[f].par = 0 THEN {}
  ELSE {frames[f].par} \cup Above(frames[f].par)

\* the result of activation g is in context.steps under its step id
Stored(g) ==
  /\ frames[g].step \in DOMAIN ctxs[frames[g].cx].steps
  /\ ctxs[frames[g].cx].steps[frames[g].step] = frames[g].res

\* the builder is called in this step
BuilderStep == built'.n = built.n + 1

\* the ids a call of the builder refers to (none for task and for a step
\* put into the definition)
RefsOf(call) == IF call.k \in {"task", "define"} THEN <<>> ELSE call.refs

\* C16 (amended): a Parallel branch, a Condition target, a Map iterator or a
\* Retry target that names an absent step is not rejected when the step is
\* declared, but sequence() on two or more ids rejects an absent id while
\* building, and leaves the entry point alone then.  An absent step fails
\* with the not-found error only when the traversal reaches it, without any
\* unit of work run for it, and after every step that is waiting for its
\* successor on the way to it has stored its result.
C16_AbsentRejectedOnlyBySequence ==
  /\ [](\A f \in DOMAIN frames :
          /\ Dangling(f) =>
               /\ frames[f].st # "ok"
               /\ frames[f].st = "err" => frames[f].v = Err("Step not found", 0)
               /\ CallsBy({f}) = {}
               /\ \A g \in Above(f) :
                    frames[g].pc = "awaitNext" =>
                      /\ Stored(g)
                      /\ StepOf(g).type = "task" => CallsBy({g}) # {}
          /\ (frames[f].st = "err" /\ frames[f].v = Err("Step not found", 0))
               => \E g \in DOMAIN frames :
                    Dangling(g) /\ (g = f \/ f \in Above(g)))
  /\ [][BuilderStep =>
          LET call == built'.call
              absent == \E i \in DOMAIN RefsOf(call) :
                          RefsOf(call)[i] \notin DOMAIN def
          IN /\ built'.ok <=> ~(call.k = "sequence" /\ Len(call.refs) >= 2 /\ absent)
             /\ call.k \in {"parallel", "condition", "define"} =>
                  call.id \in DOMAIN def'
             /\ ~built'.ok =>
                  entry' = entry /\ declared' = declared /\ DOMAIN def' = DOMAIN def
             /\ frames' = <<>>]_wfvars

\* the run of a workflow built with a condition whose target is absent has
\* ended with the not-found error, after step a has run and stored its
\* result and the condition was reached
C16_Witness ==
  /\ run.pc = "raised"
  /\ run.ret = Err("Step not found", 0)
  /\ built.n = 3
  /\ "c" \in DOMAIN def
  /\ def["c"].trueNext = "ghost"
  /\ \E f \in DOMAIN frames :
       /\ Dangling(f)
       /\ frames[f].st = "err"
       /\ \E g \in Above(f) :
            /\ frames[g].step = "a"
            /\ Stored(g)
            /\ CallsBy({g}) # {}

\* C16 (as stated): a reference to an absent step id is never rejected
\* while building with the fluent builder.
C16_Original ==
  (built.n > 0 /\ \E i \in DOMAIN RefsOf(built.call) :
                    RefsOf(built.call)[i] \notin DOMAIN def)
  => built.ok

\* C17 (what the code does): the entry point is set by the first call of
\* task() that is accepted or of sequence() that is accepted with at least
\* one id, to the id of the task or to ids[0]; parallel() and condition()
\* leave it alone; once it is set no call of the builder changes it.
C17_EntryByTaskOrSequence ==
  /\ [](entry # "" => built.n > 0)
  /\ [][BuilderStep =>
          LET call == built'.call
          IN entry' = IF entry # "" THEN entry
                      ELSE IF call.k = "task" /\ built'.ok THEN call.id
                      ELSE IF call.k = "sequence" /\ built'.ok /\ call.refs # <<>>
                      THEN call.refs[1]
                      ELSE ""]_wfvars
  /\ [][entry # "" => entry' = entry]_wfvars

\* a Parallel step p was declared first and a Task step a after it: the
\* entry point is a, and the run has returned without entering p
C17_Witness ==
  /\ declared = <<"p", "a">>
  /\ entry = "a"
  /\ run.pc = "returned"
  /\ \A f \in DOMAIN frames : frames[f].step # "p"

\* C17 (as stated): after builder calls the entry point is the first step
\* that was declared, whatever its type.
C17_Original ==
  (/\ declared # <<>>
   /\ def[declared[1]].type \in {"task", "parallel", "condition"})
  => entry = declared[1]

====
